---- MODULE Spec2Model ----
(***************************************************************************)
(* A model of the Graphenko channel-notification bot (src/index.mjs and    *)
(* its helpers under src/src): the persisted chat map, the registration    *)
(* engine, the command processor, the per-chat reconciliation engine and   *)
(* the run driver.                                                         *)
(*                                                                         *)
(* JavaScript objects are modelled as TLA+ functions over field names, so  *)
(* that "the field is absent" is "the name is not in the DOMAIN".          *)
(***************************************************************************)
EXTENDS Integers, Sequences, FiniteSets, TLC

(***************************************************************************)
(* Bounds of the model.                                                    *)
(***************************************************************************)
MaxUpdates == 2
MaxAlbum == 3
MaxRuns == 2

(***************************************************************************)
(* JavaScript objects.                                                     *)
(***************************************************************************)
EmptyObj == <<>>

Has(o, f) == f \in DOMAIN o

Del(o, f) == [g \in DOMAIN o \ {f} |-> o[g]]

Put(o, f, v) == (f :> v) @@ o

(* An ordered object (Object.keys order is insertion order for the chat   *)
(* ids, which are no array indices): a sequence of <<key, value>> entries. *)
KeysOf(m) == [i \in 1..Len(m) |-> m[i].k]

HasKey(m, k) == \E i \in 1..Len(m) : m[i].k = k

IndexOf(m, k) == CHOOSE i \in 1..Len(m) : m[i].k = k

Get(m, k) == m[IndexOf(m, k)].v

PutKey(m, k, v) ==
  IF HasKey(m, k)
    THEN [i \in 1..Len(m) |-> IF m[i].k = k THEN [k |-> k, v |-> v] ELSE m[i]]
    ELSE Append(m, [k |-> k, v |-> v])

DelKey(m, k) == SelectSeq(m, LAMBDA e : e.k # k)

(***************************************************************************)
(* String(chat.id): the decimal form of an integer.                       *)
(***************************************************************************)
Digit(d) ==
  CASE d = 0 -> "0" [] d = 1 -> "1" [] d = 2 -> "2" [] d = 3 -> "3" [] d = 4 -> "4"
    [] d = 5 -> "5" [] d = 6 -> "6" [] d = 7 -> "7" [] d = 8 -> "8" [] d = 9 -> "9"

RECURSIVE Decimal(_)
Decimal(n) == IF n < 10 THEN Digit(n) ELSE Decimal(n \div 10) \o Digit(n % 10)

String(n) == IF n < 0 THEN "-" \o Decimal(0 - n) ELSE Decimal(n)

(***************************************************************************)
(* Program constants.                                                      *)
(***************************************************************************)
OUTAGE_IMAGES_BASE ==
  "https://raw.githubusercontent.com/Baskerville42/outage-data-ua/refs/heads/main/images/"

DEFAULT_CAPTION == "Grafik stabilizatsiinykh vymknen. Onovliuietsia shchohodyny."

(***************************************************************************)
(* image_url is a string or an array of strings.                          *)
(***************************************************************************)
Url(s) == [str |-> s]

UrlList(l) == [list |-> l]

IsArray(v) == Has(v, "list")

(* JavaScript truthiness of an image_url value: every array is truthy,    *)
(* a string is truthy unless empty.                                       *)
TruthyUrl(v) == IF IsArray(v) THEN TRUE ELSE v.str # ""

(***************************************************************************)
(* The persisted chat map (src/src/storage/messageMapIO.mjs).  The file is *)
(* a JSON array of objects; an item is canonical ({"<chat_id>": {...}}),   *)
(* flat ({chat_id: "...", ...}) or of an unknown shape.                    *)
(***************************************************************************)
EntryFields ==
  {"message_id", "message_ids", "image_url", "caption", "welcome_message_id",
   "message_thread_id", "monitor_host", "monitor_port", "monitor_interval_sec",
   "monitor_last_status", "monitor_last_change", "monitor_enabled"}

(* The field-by-field copy made by load and by save: image_url and        *)
(* monitor_host are copied when truthy, the others when present.          *)
KeepField(val, f) ==
  /\ Has(val, f)
  /\ (f = "image_url" => TruthyUrl(val[f]))
  /\ (f = "monitor_host" => val[f] # "")

CopyEntry(val) == [f \in {g \in EntryFields : KeepField(val, g)} |-> val[f]]

IsDeleted(val) == Has(val, "deleted") /\ val.deleted = TRUE

(* One iteration of the loop of loadMessageMapFromFile over the array.    *)
LoadItem(acc, item) ==
  IF Cardinality(DOMAIN item) = 1 /\ ~Has(item, "chat_id")
    THEN LET k == CHOOSE f \in DOMAIN item : TRUE
             val == item[k]
         IN IF IsDeleted(val)
              THEN [acc EXCEPT !.wasNormalized = TRUE]
              ELSE [acc EXCEPT !.map = PutKey(acc.map, k, CopyEntry(val))]
    ELSE IF Has(item, "chat_id")
      THEN IF item.chat_id = "" \/ IsDeleted(item)
             THEN [acc EXCEPT !.wasNormalized = TRUE]
             ELSE [map |-> PutKey(acc.map, item.chat_id, CopyEntry(item)),
                   wasNormalized |-> TRUE]
      ELSE [acc EXCEPT !.wasNormalized = TRUE]

RECURSIVE LoadItems(_, _)
LoadItems(acc, arr) ==
  IF arr = <<>> THEN acc ELSE LoadItems(LoadItem(acc, Head(arr)), Tail(arr))

loadMessageMapFromFile(arr) == LoadItems([map |-> <<>>, wasNormalized |-> FALSE], arr)

(* a.localeCompare(b) < 0 on the chat ids of the model: the empty key     *)
(* sorts first, "-100111" sorts before "-100222".                         *)
SortedChatIds == <<"", "-100111", "-100222">>

Rank(k) == CHOOSE i \in 1..Len(SortedChatIds) : SortedChatIds[i] = k

RECURSIVE SortKeys(_)
SortKeys(ks) ==
  IF ks = {} THEN <<>>
  ELSE LET least == CHOOSE k \in ks : \A o \in ks : Rank(k) <= Rank(o)
       IN <<least>> \o SortKeys(ks \ {least})

(* A save in the flat format: keys sorted, items {chat_id, ...fields}.     *)
saveMessageMapToFileFlat(map) ==
  LET keys == SortKeys({map[i].k : i \in 1..Len(map)})
  IN [i \in 1..Len(keys) |-> Put(CopyEntry(Get(map, keys[i])), "chat_id", keys[i])]

(* The array saveMessageMapToFile writes: keys sorted, canonical items.   *)
saveMessageMapToFile(map) ==
  LET keys == SortKeys({map[i].k : i \in 1..Len(map)})
  IN [i \in 1..Len(keys) |-> (keys[i] :> CopyEntry(Get(map, keys[i])))]


(***************************************************************************)
(* Time and URL helpers (src/src/utils/time.mjs).  The clock is read as    *)
(* one fixed instant; the text it is formatted to is appended as the code  *)
(* appends it.                                                             *)
(***************************************************************************)
Timestamp == "2026-01-01 12:00"

CacheBust == "1767261600000"

withTimestamp(caption) ==
  IF caption # "" THEN caption \o "\nUpdated: " \o Timestamp
                  ELSE "Updated: " \o Timestamp

RECURSIVE JoinComma(_)
JoinComma(l) ==
  IF l = <<>> THEN ""
  ELSE IF Len(l) = 1 THEN l[1] ELSE l[1] \o "," \o JoinComma(Tail(l))

(* The string a string-or-array value is coerced to.                      *)
UrlText(v) == IF IsArray(v) THEN JoinComma(v.list) ELSE v.str

cacheBustedUrl(v) == UrlText(v) \o "?cb=" \o CacheBust

(***************************************************************************)
(* The messaging gateway's answers.  An answer is the parsed JSON body     *)
(* ({ok: true, result} or {ok: false, error_code, description}) or a       *)
(* thrown network error ({net: ...}).                                      *)
(***************************************************************************)
D_NOT_MEMBER == "Forbidden: bot is not a member of the channel chat"
D_NOT_MEMBER_UC == "Forbidden: Bot Is Not A Member Of The Channel Chat"
D_KICKED == "Forbidden: bot was kicked from the channel chat"
D_TOPIC_CLOSED == "Bad Request: TOPIC_CLOSED"
D_NOT_MODIFIED == "Bad Request: message is not modified"
D_EDIT_NOT_FOUND == "Bad Request: message to edit not found"
D_DELETE_NOT_FOUND == "Bad Request: message to delete not found"
D_CANT_DELETE == "Bad Request: message can't be deleted"
D_WRONG_URL == "Bad Request: wrong file identifier/HTTP URL specified"

(* description.includes(needle), on the descriptions of the model.        *)
Includes(d, needle) ==
  \/ needle = "not a member" /\ d = D_NOT_MEMBER
  \/ needle = "TOPIC_CLOSED" /\ d = D_TOPIC_CLOSED
  \/ needle = "message is not modified" /\ d = D_NOT_MODIFIED
  \/ needle = "message to delete not found" /\ d = D_DELETE_NOT_FOUND

(* description.toLowerCase(), on the descriptions of the model.           *)
toLowerCase(d) ==
  CASE d = D_NOT_MEMBER_UC -> D_NOT_MEMBER
    [] d = D_NOT_MEMBER -> D_NOT_MEMBER
    [] d = D_KICKED -> D_KICKED
    [] d = D_TOPIC_CLOSED -> "bad request: topic_closed"
    [] d = D_NOT_MODIFIED -> "bad request: message is not modified"
    [] d = D_EDIT_NOT_FOUND -> "bad request: message to edit not found"
    [] d = D_DELETE_NOT_FOUND -> "bad request: message to delete not found"
    [] d = D_CANT_DELETE -> "bad request: message can't be deleted"
    [] d = D_WRONG_URL -> "bad request: wrong file identifier/http url specified"

(* description.toLowerCase().includes(needle) for a lower-case needle.    *)
LowerIncludes(d, needle) ==
  \/ needle = "not a member" /\ toLowerCase(d) = D_NOT_MEMBER
  \/ needle = "message to delete not found"
       /\ toLowerCase(d) = "bad request: message to delete not found"

Err(code, d) == [ok |-> FALSE, error_code |-> code, description |-> d]

NetworkError == [net |-> "fetch failed"]

Threw(ans) == Has(ans, "net")

SendErrors ==
  {Err(403, D_NOT_MEMBER), Err(403, D_NOT_MEMBER_UC), Err(403, D_KICKED),
   Err(400, D_TOPIC_CLOSED), Err(400, D_WRONG_URL), NetworkError}

EditErrors ==
  {Err(400, D_NOT_MODIFIED), Err(400, D_TOPIC_CLOSED), Err(400, D_EDIT_NOT_FOUND),
   Err(403, D_NOT_MEMBER), Err(403, D_NOT_MEMBER_UC), Err(403, D_KICKED), NetworkError}

DeleteAnswers ==
  {[ok |-> TRUE, result |-> TRUE], Err(400, D_DELETE_NOT_FOUND), Err(400, D_CANT_DELETE)}

(* The gateway numbers the messages it creates: n is the next free id.    *)
SentMessage(n) == [ok |-> TRUE, result |-> [message_id |-> n]]

SentGroup(n, count) ==
  [ok |-> TRUE, result |-> [i \in 1..count |-> [message_id |-> n + i - 1]]]

EditedMessage == [ok |-> TRUE, result |-> TRUE]


(***************************************************************************)
(* The state the helpers share: the in-memory map, the dirty flag, the     *)
(* gateway calls issued so far and the next id the gateway will give to a  *)
(* new message.                                                            *)
(***************************************************************************)
Call(w, c) == [w EXCEPT !.calls = Append(@, c)]

(* removeChat that marks the map dirty and keeps the record.              *)
removeChatKeepingRecord(w, chatId) ==
  IF HasKey(w.map, chatId) THEN [w EXCEPT !.dirty = TRUE] ELSE w

removeChat(w, chatId) ==
  IF HasKey(w.map, chatId)
    THEN [w EXCEPT !.map = DelKey(@, chatId), !.dirty = TRUE]
    ELSE w

(***************************************************************************)
(* src/src/telegram/api.mjs.  Each operator yields the state after the     *)
(* call and the value the function returns.                                *)
(***************************************************************************)
(* pinMessage that issues no call.                                        *)
pinMessageSkipped(w, chat_id, message_id) == w

pinMessage(w, chat_id, message_id) ==
  Call(w, [op |-> "pinChatMessage", chat_id |-> chat_id, message_id |-> message_id])

deleteMessage(w, chat_id, message_id, ans) ==
  LET w1 == Call(w, [op |-> "deleteMessage", chat_id |-> chat_id,
                     message_id |-> message_id, ans |-> ans])
  IN IF Threw(ans) THEN [w |-> w1, r |-> [ok |-> FALSE]]
     ELSE IF ~ans.ok
       THEN IF ans.error_code = 400
                 /\ LowerIncludes(ans.description, "message to delete not found")
              THEN [w |-> w1, r |-> [ok |-> TRUE, reason |-> "already-deleted"]]
              ELSE [w |-> w1, r |-> [ok |-> FALSE]]
       ELSE [w |-> w1, r |-> [ok |-> TRUE]]

sendTextMessage(w, chat_id, text, ans) ==
  LET w1 == Call(w, [op |-> "sendMessage", chat_id |-> chat_id, text |-> text,
                     ans |-> ans])
  IN IF Threw(ans) THEN [w |-> w1, r |-> [ok |-> FALSE, err |-> ans]]
     ELSE IF ~ans.ok THEN [w |-> w1, r |-> [ok |-> FALSE, json |-> ans]]
     ELSE [w |-> [w1 EXCEPT !.nextId = @ + 1],
           r |-> [ok |-> TRUE, result |-> ans.result]]

sendMediaGroup(w, chat_id, media, ans) ==
  LET w1 == Call(w, [op |-> "sendMediaGroup", chat_id |-> chat_id, media |-> media,
                     ans |-> ans])
  IN IF Threw(ans) THEN [w |-> w1, r |-> [ok |-> FALSE, err |-> ans]]
     ELSE IF ~ans.ok THEN [w |-> w1, r |-> [ok |-> FALSE, json |-> ans]]
     ELSE [w |-> [w1 EXCEPT !.nextId = @ + Len(ans.result)],
           r |-> [ok |-> TRUE, result |-> ans.result]]

(***************************************************************************)
(* sendPhoto (src/index.mjs).  chat is the effective configuration.        *)
(***************************************************************************)
IsNotMember(json) ==
  json.error_code = 403 /\ LowerIncludes(json.description, "not a member")

IsTopicClosed(json) ==
  json.error_code = 400 /\ Includes(json.description, "TOPIC_CLOSED")

(* IsNotModified that never recognises the answer.                        *)
IsNotModifiedNever(json) == FALSE

IsNotModified(json) ==
  json.error_code = 400 /\ Includes(json.description, "message is not modified")

(* sendPhoto that issues the call a second time when the first threw.     *)
sendPhotoRetrying(w, chat, ans) ==
  LET c == [op |-> "sendPhoto", chat_id |-> chat.chat_id,
            photo |-> cacheBustedUrl(chat.image_url),
            caption |-> withTimestamp(chat.caption), ans |-> ans]
      w1 == Call(w, c)
  IN IF Threw(ans)
       THEN [w |-> Call(w1, c), r |-> [ok |-> FALSE, chat |-> chat.chat_id, err |-> ans]]
     ELSE IF ~ans.ok
       THEN [w |-> w1, r |-> [ok |-> FALSE, chat |-> chat.chat_id, json |-> ans]]
     ELSE LET messageId == ans.result.message_id
          IN [w |-> pinMessage([w1 EXCEPT !.nextId = @ + 1], chat.chat_id, messageId),
              r |-> [ok |-> TRUE, chat |-> chat.chat_id, message_id |-> messageId,
                     result |-> ans.result]]

sendPhoto(w, chat, ans) ==
  LET w1 == Call(w, [op |-> "sendPhoto", chat_id |-> chat.chat_id,
                     photo |-> cacheBustedUrl(chat.image_url),
                     caption |-> withTimestamp(chat.caption), ans |-> ans])
  IN IF Threw(ans) THEN [w |-> w1, r |-> [ok |-> FALSE, chat |-> chat.chat_id, err |-> ans]]
     ELSE IF ~ans.ok
       THEN IF IsNotMember(ans)
              THEN [w |-> removeChat(w1, chat.chat_id),
                    r |-> [ok |-> TRUE, chat |-> chat.chat_id, reason |-> "unregistered"]]
            ELSE IF IsTopicClosed(ans)
              THEN [w |-> w1,
                    r |-> [ok |-> TRUE, chat |-> chat.chat_id, reason |-> "topic-closed"]]
            ELSE [w |-> w1, r |-> [ok |-> FALSE, chat |-> chat.chat_id, json |-> ans]]
       ELSE LET messageId == ans.result.message_id
            IN [w |-> pinMessage([w1 EXCEPT !.nextId = @ + 1], chat.chat_id, messageId),
                r |-> [ok |-> TRUE, chat |-> chat.chat_id, message_id |-> messageId,
                       result |-> ans.result]]

(***************************************************************************)
(* editPhoto.  del and sent are the answers to the delete and the send of  *)
(* the replace path; they are read only when that path is taken.           *)
(***************************************************************************)
editPhoto(w, chat, messageId, ans, del, sent) ==
  LET w1 == Call(w, [op |-> "editMessageMedia", chat_id |-> chat.chat_id,
                     message_id |-> messageId,
                     media |-> cacheBustedUrl(chat.image_url),
                     caption |-> withTimestamp(chat.caption), ans |-> ans])
  IN IF Threw(ans) THEN [w |-> w1, r |-> [ok |-> FALSE, chat |-> chat.chat_id, err |-> ans]]
     ELSE IF ~ans.ok
       THEN IF IsNotModified(ans)
              THEN [w |-> pinMessage(w1, chat.chat_id, messageId),
                    r |-> [ok |-> TRUE, chat |-> chat.chat_id, not_modified |-> TRUE]]
            ELSE IF IsTopicClosed(ans)
              THEN [w |-> w1,
                    r |-> [ok |-> TRUE, chat |-> chat.chat_id, reason |-> "topic-closed"]]
            ELSE IF ans.error_code = 400
              THEN LET d == deleteMessage(w1, chat.chat_id, messageId, del)
                       s == sendPhoto(d.w, chat, sent)
                   IN [w |-> s.w, r |-> Put(s.r, "replaced", TRUE)]
            ELSE IF IsNotMember(ans)
              THEN [w |-> removeChat(w1, chat.chat_id),
                    r |-> [ok |-> TRUE, chat |-> chat.chat_id, reason |-> "unregistered"]]
            ELSE [w |-> w1, r |-> [ok |-> FALSE, chat |-> chat.chat_id, json |-> ans]]
       ELSE [w |-> pinMessage(w1, chat.chat_id, messageId),
             r |-> [ok |-> TRUE, chat |-> chat.chat_id, result |-> ans.result]]

(***************************************************************************)
(* sendAlbum and editAlbum.                                                *)
(***************************************************************************)
Images(chat) == IF IsArray(chat.image_url) THEN chat.image_url.list
                                          ELSE <<UrlText(chat.image_url)>>

AlbumMedia(chat) ==
  [i \in 1..Len(Images(chat)) |->
     [type |-> "photo", media |-> Images(chat)[i] \o "?cb=" \o CacheBust,
      caption |-> IF i = 1 THEN withTimestamp(chat.caption) ELSE ""]]

sendAlbum(w, chat, ans) ==
  LET g == sendMediaGroup(w, chat.chat_id, AlbumMedia(chat), ans)
  IN IF ~g.r.ok
       THEN IF Has(g.r, "json") /\ g.r.json.error_code = 403
              THEN [w |-> removeChat(g.w, chat.chat_id),
                    r |-> [ok |-> TRUE, chat |-> chat.chat_id, reason |-> "unregistered"]]
            ELSE IF Has(g.r, "json")
              THEN [w |-> g.w, r |-> [ok |-> FALSE, chat |-> chat.chat_id, json |-> g.r.json]]
            ELSE [w |-> g.w, r |-> [ok |-> FALSE, chat |-> chat.chat_id]]
       ELSE LET messageIds == [i \in 1..Len(g.r.result) |-> g.r.result[i].message_id]
            IN [w |-> IF Len(messageIds) > 0
                        THEN pinMessage(g.w, chat.chat_id, messageIds[1])
                        ELSE g.w,
                r |-> [ok |-> TRUE, chat |-> chat.chat_id, message_ids |-> messageIds,
                       result |-> g.r.result]]

(* The edit of position i that repeats the caption on every position.    *)
EditAlbumItemCaptioned(acc, chat, existingMessageIds, i, ans) ==
  LET w1 == Call(acc.w, [op |-> "editMessageMedia", chat_id |-> chat.chat_id,
                         message_id |-> existingMessageIds[i],
                         media |-> Images(chat)[i] \o "?cb=" \o CacheBust,
                         caption |-> withTimestamp(chat.caption),
                         ans |-> ans])
  IN [w |-> w1, results |-> Append(acc.results, [ok |-> ~Threw(ans) /\ ans.ok])]

(* One iteration of the loop of editAlbum: the edit of position i.  The   *)
(* accumulator holds the state and the results array.                     *)
EditAlbumItem(acc, chat, existingMessageIds, i, ans) ==
  LET w1 == Call(acc.w, [op |-> "editMessageMedia", chat_id |-> chat.chat_id,
                         message_id |-> existingMessageIds[i],
                         media |-> Images(chat)[i] \o "?cb=" \o CacheBust,
                         caption |-> IF i = 1 THEN withTimestamp(chat.caption) ELSE "",
                         ans |-> ans])
  IN IF Threw(ans) THEN [w |-> w1, results |-> Append(acc.results, [ok |-> FALSE])]
     ELSE IF ~ans.ok
       THEN IF IsNotModified(ans)
              THEN [w |-> w1, results |-> acc.results]
              ELSE [w |-> w1, results |-> Append(acc.results, [ok |-> FALSE])]
       ELSE [w |-> w1, results |-> Append(acc.results, [ok |-> TRUE])]

RECURSIVE EditAlbumLoop(_, _, _, _, _)
EditAlbumLoop(acc, chat, existingMessageIds, i, answers) ==
  IF i > Len(Images(chat)) THEN acc
  ELSE EditAlbumLoop(EditAlbumItem(acc, chat, existingMessageIds, i, answers[i]),
                     chat, existingMessageIds, i + 1, answers)

editAlbum(w, chat, existingMessageIds, answers) ==
  IF Len(Images(chat)) # Len(existingMessageIds)
    THEN [w |-> w, r |-> [ok |-> FALSE, reason |-> "size-mismatch"]]
    ELSE LET done == EditAlbumLoop([w |-> w, results |-> <<>>], chat,
                                   existingMessageIds, 1, answers)
         IN [w |-> IF Len(existingMessageIds) > 0
                     THEN pinMessage(done.w, chat.chat_id, existingMessageIds[1])
                     ELSE done.w,
             r |-> [ok |-> TRUE, chat |-> chat.chat_id, result |-> done.results]]


(***************************************************************************)
(* registerFromUpdates.  An update is the object the gateway delivers:     *)
(* {update_id, my_chat_member: {chat: {id, type}, new_chat_member:         *)
(* {status}}} or {update_id, message | channel_post: {message_id, chat,    *)
(* text}}.                                                                 *)
(***************************************************************************)
StatusOf(mcm) ==
  IF Has(mcm, "new_chat_member") THEN mcm.new_chat_member.status ELSE "undefined"

(* RegisterUpdate that starts every joining chat from an empty record,    *)
(* registered or not.                                                     *)
RegisterUpdateResetting(acc, u) ==
  IF ~Has(u, "my_chat_member") THEN acc
  ELSE IF ~Has(u.my_chat_member, "chat") THEN acc
  ELSE IF u.my_chat_member.chat.type \notin {"channel", "supergroup", "group"} THEN acc
  ELSE LET status == StatusOf(u.my_chat_member)
           chatId == String(u.my_chat_member.chat.id)
       IN IF status \in {"left", "kicked", "restricted"}
            THEN [acc EXCEPT !.w = removeChat(@, chatId)]
          ELSE IF status \notin {"administrator", "creator", "member"} THEN acc
          ELSE [w |-> [acc.w EXCEPT !.map = PutKey(@, chatId, EmptyObj)],
                newlyRegistered |-> IF HasKey(acc.w.map, chatId)
                                      THEN acc.newlyRegistered
                                      ELSE Append(acc.newlyRegistered, chatId)]

(* One iteration of the loop over the updates.                            *)
RegisterUpdate(acc, u) ==
  IF ~Has(u, "my_chat_member") THEN acc
  ELSE IF ~Has(u.my_chat_member, "chat") THEN acc
  ELSE IF u.my_chat_member.chat.type \notin {"channel", "supergroup", "group"} THEN acc
  ELSE LET status == StatusOf(u.my_chat_member)
           chatId == String(u.my_chat_member.chat.id)
       IN IF status \in {"left", "kicked", "restricted"}
            THEN [acc EXCEPT !.w = removeChat(@, chatId)]
          ELSE IF status \notin {"administrator", "creator", "member"} THEN acc
          ELSE IF ~HasKey(acc.w.map, chatId)
            THEN [w |-> [acc.w EXCEPT !.map = PutKey(@, chatId, EmptyObj)],
                  newlyRegistered |-> Append(acc.newlyRegistered, chatId)]
          ELSE acc

RECURSIVE RegisterLoop(_, _)
RegisterLoop(acc, us) ==
  IF us = <<>> THEN acc ELSE RegisterLoop(RegisterUpdate(acc, Head(us)), Tail(us))

registerFromUpdates(w, us) ==
  LET done == RegisterLoop([w |-> w, newlyRegistered |-> <<>>], us)
  IN IF Len(done.newlyRegistered) > 0
       THEN [done EXCEPT !.w.dirty = TRUE]
       ELSE done

(***************************************************************************)
(* sendWelcomeMessage.                                                     *)
(***************************************************************************)
T_WELCOME == "GraphenkoBot connected. Ready for commands."

sendWelcomeMessage(w, chat_id, ans) ==
  LET s == sendTextMessage(w, chat_id, T_WELCOME, ans)
  IN IF s.r.ok
       THEN LET messageId == s.r.result.message_id
                m1 == IF HasKey(s.w.map, chat_id) THEN s.w.map
                      ELSE PutKey(s.w.map, chat_id, EmptyObj)
                rec == Get(m1, chat_id)
            IN IF ~Has(rec, "welcome_message_id") \/ rec.welcome_message_id # messageId
                 THEN [s.w EXCEPT
                         !.map = PutKey(m1, chat_id, Put(rec, "welcome_message_id", messageId)),
                         !.dirty = TRUE]
                 ELSE [s.w EXCEPT !.map = m1]
       ELSE s.w

(***************************************************************************)
(* Texts.  A text is the sequence of its maximal runs: a run of n          *)
(* whitespace characters {ws: n} or a word {w: "..."}; the two alternate.  *)
(***************************************************************************)
Word(s) == [w |-> s]

Space(n) == [ws |-> n]

IsSpace(t) == Has(t, "ws")

TrimStart(ts) == IF ts # <<>> /\ IsSpace(ts[1]) THEN Tail(ts) ELSE ts

TrimEnd(ts) ==
  IF ts # <<>> /\ IsSpace(ts[Len(ts)]) THEN SubSeq(ts, 1, Len(ts) - 1) ELSE ts

Trim(ts) == TrimEnd(TrimStart(ts))

RECURSIVE Blanks(_)
Blanks(n) == IF n = 0 THEN "" ELSE " " \o Blanks(n - 1)

RECURSIVE TextOf(_)
TextOf(ts) ==
  IF ts = <<>> THEN ""
  ELSE (IF IsSpace(ts[1]) THEN Blanks(ts[1].ws) ELSE ts[1].w) \o TextOf(Tail(ts))

(* /^\/graphenko_caption(?:@\w+)?$/i and /^\/graphenko_image(?:@\w+)?$/i  *)
(* on the words of the model.                                             *)
IsCaptionCommand(s) ==
  s \in {"/graphenko_caption", "/GRAPHENKO_CAPTION", "/graphenko_caption@GraphenkoBot"}

IsImageCommand(s) ==
  s \in {"/graphenko_image", "/Graphenko_Image", "/graphenko_image@GraphenkoBot"}

(* text.match(/^\s*\/graphenko_caption(?:@\w+)?\s+([\s\S]+)$/i): the      *)
(* captured group, when the text matches.  \s+ needs one whitespace       *)
(* character and the group one character of any kind, so a command        *)
(* followed by whitespace alone matches when that run has two characters  *)
(* or more, the group being whitespace.                                   *)
CaptionMatch(text) ==
  LET t == TrimStart(text)
  IN IF Len(t) >= 2 /\ ~IsSpace(t[1]) /\ IsCaptionCommand(t[1].w) /\ IsSpace(t[2])
       THEN IF Len(t) >= 3
              THEN [matched |-> TRUE, raw |-> SubSeq(t, 3, Len(t))]
            ELSE IF t[2].ws >= 2
              THEN [matched |-> TRUE, raw |-> <<Space(1)>>]
            ELSE [matched |-> FALSE]
       ELSE [matched |-> FALSE]

(* text.match(/^\s*\/graphenko_image(?:@\w+)?\s+(\S+)\s*$/i).             *)
ImageMatch(text) ==
  LET t == TrimEnd(TrimStart(text))
  IN IF Len(t) = 3 /\ ~IsSpace(t[1]) /\ IsImageCommand(t[1].w) /\ IsSpace(t[2])
          /\ ~IsSpace(t[3])
       THEN [matched |-> TRUE, url |-> t[3].w]
       ELSE [matched |-> FALSE]

(* arg.toLowerCase() === '-default'                                       *)
IsDefaultArg(arg) == arg \in {"-default", "-DEFAULT", "-Default"}

(***************************************************************************)
(* isValidOutageImageUrl and verifyRemotePng (src/src/utils/time.mjs), on  *)
(* the URLs of the model.                                                  *)
(***************************************************************************)
U_KYIV == OUTAGE_IMAGES_BASE \o "kyiv/gpv-3-2-emergency.png"
U_ODESA == OUTAGE_IMAGES_BASE \o "odesa/gpv-1-1.PNG"
U_JPG == OUTAGE_IMAGES_BASE \o "kyiv/gpv-3-2-emergency.jpg"
U_ELSEWHERE == "https://example.com/images/kyiv/gpv-3-2-emergency.png"
U_RELATIVE == "images/kyiv/gpv-3-2-emergency.png"

StartsWithBase(url) == url \in {U_KYIV, U_ODESA, U_JPG}

LowerEndsWithPng(url) == url \in {U_KYIV, U_ODESA, U_ELSEWHERE, U_RELATIVE}

ParsesAsUrl(url) == url \in {U_KYIV, U_ODESA, U_JPG, U_ELSEWHERE}

(* isValidOutageImageUrl without the test of the base path.               *)
isValidOutageImageUrlAnywhere(url) ==
  IF ~LowerEndsWithPng(url) THEN FALSE ELSE ParsesAsUrl(url)

isValidOutageImageUrl(url) ==
  IF ~StartsWithBase(url) THEN FALSE
  ELSE IF ~LowerEndsWithPng(url) THEN FALSE
  ELSE ParsesAsUrl(url)

(* A response of fetch: {ok, hasHeaders, contentType}, or a thrown error. *)
Response(ok, ct) == [ok |-> ok, hasHeaders |-> TRUE, contentType |-> ct]

IsPngType(ct) == ct \in {"image/png", "IMAGE/PNG"}

Fetch(w, method, url, ans) ==
  Call(w, [op |-> "fetch", method |-> method, url |-> url, ans |-> ans])

(* head and get are the answers to the two fetches; the second is issued  *)
(* only when the first is unusable.  The fetches are logged with the       *)
(* gateway calls.                                                         *)
verifyRemotePng(w, url, head, get) ==
  LET w1 == Fetch(w, "HEAD", url, head)
  IN IF Threw(head) THEN [w |-> w1, r |-> [ok |-> FALSE]]
     ELSE LET again == ~head.ok \/ ~head.hasHeaders
              w2 == IF again THEN Fetch(w1, "GET", url, get) ELSE w1
              res == IF again THEN get ELSE head
          IN IF Threw(res) THEN [w |-> w2, r |-> [ok |-> FALSE]]
             ELSE IF ~res.ok THEN [w |-> w2, r |-> [ok |-> FALSE]]
             ELSE IF ~IsPngType(res.contentType) /\ ~LowerEndsWithPng(url)
               THEN [w |-> w2, r |-> [ok |-> FALSE]]
             ELSE [w |-> w2, r |-> [ok |-> TRUE]]


(***************************************************************************)
(* processCommandUpdates: one iteration of its loop over the updates.      *)
(* a holds the answers the iteration may need: reply (to the text sent),   *)
(* del (to the delete of the command message), head and get (the fetches   *)
(* of verifyRemotePng) and wdel (to the delete of the welcome message).    *)
(***************************************************************************)
T_CAPTION_RESET == "Caption reset to default."
T_CAPTION_EMPTY == "Empty caption. Try: /graphenko_caption My own caption"
T_CAPTION_SAVED == "Caption saved."
T_BAD_URL == "Bad URL. Use a PNG under: " \o OUTAGE_IMAGES_BASE
T_NOT_PNG == "Cannot fetch the image or it is not a PNG."
T_IMAGE_SAVED == "Image saved. Broadcast enabled."

HasMessage(u) == Has(u, "message") \/ Has(u, "channel_post")

MessageOf(u) ==
  IF Has(u, "message") THEN u.message
  ELSE IF Has(u, "channel_post") THEN u.channel_post
  ELSE EmptyObj

(* msg.text || msg.caption || ''                                          *)
TextOfMessage(msg) ==
  IF Has(msg, "text") /\ msg.text # <<>> THEN msg.text
  ELSE IF Has(msg, "caption") /\ msg.caption # <<>> THEN msg.caption
  ELSE <<>>

(* The best-effort delete of the command message.                         *)
DeleteCommandMessage(w, chatId, msg, ans) ==
  IF Has(msg, "message_id") /\ msg.message_id # 0
    THEN deleteMessage(w, chatId, msg.message_id, ans).w
    ELSE w

EnsureRecord(w, chatId) ==
  IF HasKey(w.map, chatId) THEN w
  ELSE [w EXCEPT !.map = PutKey(@, chatId, EmptyObj)]

(* The caption command that answers without storing the caption.          *)
CaptionCommandForgetting(w, chatId, msg, raw, a) ==
  LET w1 == EnsureRecord(w, chatId)
      w3 == sendTextMessage(w1, chatId, T_CAPTION_SAVED, a.reply).w
  IN DeleteCommandMessage(w3, chatId, msg, a.del)

CaptionCommand(w, chatId, msg, raw, a) ==
  LET arg == TextOf(Trim(raw))
      w1 == EnsureRecord(w, chatId)
      rec == Get(w1.map, chatId)
  IN IF IsDefaultArg(arg)
       THEN LET w2 == IF Has(rec, "caption")
                        THEN [w1 EXCEPT !.map = PutKey(@, chatId, Del(rec, "caption")),
                                        !.dirty = TRUE]
                        ELSE w1
                w3 == sendTextMessage(w2, chatId, T_CAPTION_RESET, a.reply).w
            IN DeleteCommandMessage(w3, chatId, msg, a.del)
     ELSE IF arg = ""
       THEN sendTextMessage(w1, chatId, T_CAPTION_EMPTY, a.reply).w
     ELSE LET w2 == [w1 EXCEPT !.map = PutKey(@, chatId, Put(rec, "caption", arg)),
                               !.dirty = TRUE]
              w3 == sendTextMessage(w2, chatId, T_CAPTION_SAVED, a.reply).w
          IN DeleteCommandMessage(w3, chatId, msg, a.del)

(* The image command that drops welcome_message_id whatever the delete    *)
(* returned.                                                              *)
ImageCommandAlwaysClearing(w, chatId, msg, url, a) ==
  IF ~isValidOutageImageUrl(url)
    THEN sendTextMessage(w, chatId, T_BAD_URL, a.reply).w
  ELSE LET ver == verifyRemotePng(w, url, a.head, a.get)
       IN IF ~ver.r.ok
            THEN sendTextMessage(ver.w, chatId, T_NOT_PNG, a.reply).w
          ELSE LET w1 == EnsureRecord(ver.w, chatId)
                   rec == Put(Get(w1.map, chatId), "image_url", Url(url))
                   w2 == [w1 EXCEPT !.map = PutKey(@, chatId, rec), !.dirty = TRUE]
                   w3 == IF Has(rec, "welcome_message_id") /\ rec.welcome_message_id # 0
                           THEN LET d == deleteMessage(w2, chatId, rec.welcome_message_id,
                                                       a.wdel)
                                IN [d.w EXCEPT
                                      !.map = PutKey(@, chatId, Del(rec, "welcome_message_id")),
                                      !.dirty = TRUE]
                           ELSE w2
                   w4 == sendTextMessage(w3, chatId, T_IMAGE_SAVED, a.reply).w
               IN DeleteCommandMessage(w4, chatId, msg, a.del)

ImageCommand(w, chatId, msg, url, a) ==
  IF ~isValidOutageImageUrl(url)
    THEN sendTextMessage(w, chatId, T_BAD_URL, a.reply).w
  ELSE LET ver == verifyRemotePng(w, url, a.head, a.get)
       IN IF ~ver.r.ok
            THEN sendTextMessage(ver.w, chatId, T_NOT_PNG, a.reply).w
          ELSE LET w1 == EnsureRecord(ver.w, chatId)
                   rec == Put(Get(w1.map, chatId), "image_url", Url(url))
                   w2 == [w1 EXCEPT !.map = PutKey(@, chatId, rec), !.dirty = TRUE]
                   w3 == IF Has(rec, "welcome_message_id") /\ rec.welcome_message_id # 0
                           THEN LET d == deleteMessage(w2, chatId, rec.welcome_message_id,
                                                       a.wdel)
                                IN IF d.r.ok
                                     THEN [d.w EXCEPT
                                             !.map = PutKey(@, chatId,
                                                            Del(rec, "welcome_message_id")),
                                             !.dirty = TRUE]
                                     ELSE d.w
                           ELSE w2
                   w4 == sendTextMessage(w3, chatId, T_IMAGE_SAVED, a.reply).w
               IN DeleteCommandMessage(w4, chatId, msg, a.del)

ProcessCommandUpdate(w, u, a) ==
  LET msg == MessageOf(u)
  IN IF ~HasMessage(u) THEN w
     ELSE IF ~Has(msg, "chat") THEN w
     ELSE LET chatId == String(msg.chat.id)
              text == TextOfMessage(msg)
          IN IF text = <<>> THEN w
             ELSE IF CaptionMatch(text).matched
               THEN CaptionCommand(w, chatId, msg, CaptionMatch(text).raw, a)
             ELSE IF ~ImageMatch(text).matched THEN w
             ELSE ImageCommand(w, chatId, msg, ImageMatch(text).url, a)

(***************************************************************************)
(* updateStoredChatFields, setMessageId, setMessageIds.                    *)
(***************************************************************************)
(* updateStoredChatFields that stores the image and leaves the caption.   *)
updateStoredChatFieldsImageOnly(w, chatId, effective) ==
  LET w1 == EnsureRecord(w, chatId)
      rec == Get(w1.map, chatId)
      setImage == /\ Has(effective, "image_url") /\ TruthyUrl(effective.image_url)
                  /\ (~Has(rec, "image_url") \/ rec.image_url # effective.image_url)
  IN IF setImage
       THEN [w1 EXCEPT !.map = PutKey(@, chatId, Put(rec, "image_url", effective.image_url)),
                       !.dirty = TRUE]
       ELSE w1

updateStoredChatFields(w, chatId, effective) ==
  LET w1 == EnsureRecord(w, chatId)
      rec == Get(w1.map, chatId)
      setImage == /\ Has(effective, "image_url") /\ TruthyUrl(effective.image_url)
                  /\ (~Has(rec, "image_url") \/ rec.image_url # effective.image_url)
      rec1 == IF setImage THEN Put(rec, "image_url", effective.image_url) ELSE rec
      setCaption == /\ effective.caption # ""
                    /\ (~Has(rec1, "caption") \/ rec1.caption # effective.caption)
      rec2 == IF setCaption THEN Put(rec1, "caption", effective.caption) ELSE rec1
  IN IF setImage \/ setCaption
       THEN [w1 EXCEPT !.map = PutKey(@, chatId, rec2), !.dirty = TRUE]
       ELSE w1

(* setMessageId that keeps a message_id the record already holds.         *)
setMessageIdKeepingOld(w, chatId, messageId) ==
  IF HasKey(w.map, chatId) /\ Has(Get(w.map, chatId), "message_id") THEN w
  ELSE LET w1 == EnsureRecord(w, chatId)
       IN [w1 EXCEPT !.map = PutKey(@, chatId, Put(Get(w1.map, chatId), "message_id",
                                                   messageId)),
                     !.dirty = TRUE]

setMessageId(w, chatId, messageId) ==
  IF messageId = 0 THEN w
  ELSE LET w1 == EnsureRecord(w, chatId)
           rec == Get(w1.map, chatId)
           rec1 == IF Has(rec, "message_ids") THEN Del(rec, "message_ids") ELSE rec
       IN IF ~Has(rec1, "message_id") \/ rec1.message_id # messageId
            THEN [w1 EXCEPT !.map = PutKey(@, chatId, Put(rec1, "message_id", messageId)),
                            !.dirty = TRUE]
            ELSE [w1 EXCEPT !.map = PutKey(@, chatId, rec1)]

(* setMessageIds without the removal of the single id.                    *)
setMessageIdsKeepingSingle(w, chatId, messageIds) ==
  LET w1 == EnsureRecord(w, chatId)
      rec == Get(w1.map, chatId)
      current == IF Has(rec, "message_ids") THEN rec.message_ids ELSE <<>>
  IN IF current # messageIds
       THEN [w1 EXCEPT !.map = PutKey(@, chatId, Put(rec, "message_ids", messageIds)),
                       !.dirty = TRUE]
       ELSE w1

setMessageIds(w, chatId, messageIds) ==
  LET w1 == EnsureRecord(w, chatId)
      rec == Get(w1.map, chatId)
      rec1 == IF Has(rec, "message_id") /\ rec.message_id # 0
                THEN Del(rec, "message_id") ELSE rec
      current == IF Has(rec1, "message_ids") THEN rec1.message_ids ELSE <<>>
  IN IF current # messageIds
       THEN [w1 EXCEPT !.map = PutKey(@, chatId, Put(rec1, "message_ids", messageIds)),
                       !.dirty = TRUE]
       ELSE [w1 EXCEPT !.map = PutKey(@, chatId, rec1)]


(***************************************************************************)
(* The reconciliation of one chat (the body of the main loop).             *)
(***************************************************************************)
Effective(chatId, cfg) ==
  LET base == [chat_id |-> chatId,
               caption |-> IF Has(cfg, "caption") THEN cfg.caption ELSE DEFAULT_CAPTION]
      withImage == IF Has(cfg, "image_url") THEN Put(base, "image_url", cfg.image_url)
                   ELSE base
  IN IF Has(cfg, "message_thread_id")
       THEN Put(withImage, "message_thread_id", cfg.message_thread_id)
       ELSE withImage

KnownSingle(cfg) == Has(cfg, "message_id") /\ cfg.message_id # 0

KnownAlbum(cfg) == Has(cfg, "message_ids")

IsAlbumConfig(effective) ==
  IsArray(effective.image_url) /\ Len(effective.image_url.list) > 1

AlbumSizeDiffers(cfg, effective) ==
  IsAlbumConfig(effective) /\ KnownAlbum(cfg)
    /\ Len(cfg.message_ids) # Len(effective.image_url.list)

(* Deletions without the third migration case: an album whose size        *)
(* changed is resent over the old messages.                               *)
DeletionsWithoutResize(cfg, effective) ==
  (IF IsAlbumConfig(effective) /\ KnownSingle(cfg) THEN <<cfg.message_id>> ELSE <<>>)
  \o (IF ~IsAlbumConfig(effective) /\ KnownAlbum(cfg) THEN cfg.message_ids ELSE <<>>)

(* The message ids the three migration cases delete, in the order of the  *)
(* delete calls.                                                          *)
(* The deletions that remove every stored message before anything else.  *)
DeletionsOfEveryStored(cfg, effective) ==
  (IF KnownSingle(cfg) THEN <<cfg.message_id>> ELSE <<>>)
  \o (IF KnownAlbum(cfg) THEN cfg.message_ids ELSE <<>>)

Deletions(cfg, effective) ==
  (IF IsAlbumConfig(effective) /\ KnownSingle(cfg) THEN <<cfg.message_id>> ELSE <<>>)
  \o (IF ~IsAlbumConfig(effective) /\ KnownAlbum(cfg) THEN cfg.message_ids ELSE <<>>)
  \o (IF AlbumSizeDiffers(cfg, effective) THEN cfg.message_ids ELSE <<>>)

(* The mode decided by the stored representation alone, the sizes not     *)
(* compared.                                                              *)
ModeByRepresentation(cfg, effective) ==
  IF IsAlbumConfig(effective)
    THEN IF KnownAlbum(cfg) /\ ~KnownSingle(cfg) THEN "edit" ELSE "send"
    ELSE IF KnownSingle(cfg) /\ ~KnownAlbum(cfg) THEN "edit" ELSE "send"

(* The mode the loop body settles on, overrides included.                 *)
Mode(cfg, effective) ==
  LET first == IF IsAlbumConfig(effective)
                 THEN IF KnownAlbum(cfg)
                         /\ Len(cfg.message_ids) = Len(effective.image_url.list)
                        THEN "edit" ELSE "send"
                 ELSE IF KnownSingle(cfg) /\ ~IsAlbumConfig(effective)
                        THEN "edit" ELSE "send"
  IN IF IsAlbumConfig(effective) /\ KnownSingle(cfg) THEN "send"
     ELSE IF ~IsAlbumConfig(effective) /\ KnownAlbum(cfg) THEN "send"
     ELSE IF AlbumSizeDiffers(cfg, effective) THEN "send"
     ELSE first

RECURSIVE DeleteAll(_, _, _, _)
DeleteAll(w, chatId, mids, answers) ==
  IF mids = <<>> THEN w
  ELSE DeleteAll(deleteMessage(w, chatId, Head(mids), Head(answers)).w, chatId,
                 Tail(mids), Tail(answers))

(* The send/edit dispatch.  a holds the answers: send, edit, edits (one   *)
(* per album position), del and sent (the replace path of editPhoto).     *)
(* The result is the state and the entry pushed to results.               *)
Dispatch(w, chatId, cfg, effective, a) ==
  IF Mode(cfg, effective) = "send"
    THEN IF IsAlbumConfig(effective)
           THEN LET s == sendAlbum(w, effective, a.send)
                IN IF s.r.ok /\ Has(s.r, "reason") /\ s.r.reason = "unregistered" THEN s
                   ELSE LET w1 == IF s.r.ok /\ Has(s.r, "message_ids")
                                    THEN setMessageIds(s.w, chatId, s.r.message_ids)
                                    ELSE s.w
                        IN [w |-> updateStoredChatFields(w1, chatId, effective), r |-> s.r]
           ELSE LET s == sendPhoto(w, effective, a.send)
                IN IF s.r.ok /\ Has(s.r, "reason") /\ s.r.reason = "unregistered" THEN s
                   ELSE LET w1 == IF s.r.ok /\ Has(s.r, "message_id")
                                    THEN setMessageId(s.w, chatId, s.r.message_id)
                                    ELSE s.w
                        IN [w |-> updateStoredChatFields(w1, chatId, effective), r |-> s.r]
    ELSE IF IsAlbumConfig(effective)
           THEN LET e == editAlbum(w, effective, cfg.message_ids, a.edits)
                IN [w |-> updateStoredChatFields(e.w, chatId, effective), r |-> e.r]
           ELSE LET e == editPhoto(w, effective, cfg.message_id, a.edit, a.del, a.sent)
                IN IF e.r.ok /\ Has(e.r, "reason") /\ e.r.reason = "unregistered" THEN e
                   ELSE LET w1 == IF e.r.ok /\ Has(e.r, "replaced") /\ Has(e.r, "message_id")
                                    THEN setMessageId(e.w, chatId, e.r.message_id)
                                    ELSE e.w
                        IN [w |-> updateStoredChatFields(w1, chatId, effective), r |-> e.r]

(* The loop body that forgets a chat without an image.                    *)
ReconcileDroppingDormant(w, chatId, dels, a) ==
  LET cfg == IF HasKey(w.map, chatId) THEN Get(w.map, chatId) ELSE EmptyObj
      effective == Effective(chatId, cfg)
  IN IF chatId = ""
       THEN [w |-> w, r |-> [ok |-> FALSE, chat |-> chatId, reason |-> "invalid-config"]]
     ELSE IF ~Has(effective, "image_url") \/ ~TruthyUrl(effective.image_url)
       THEN [w |-> removeChat(w, chatId),
             r |-> [ok |-> TRUE, chat |-> chatId, reason |-> "no-image"]]
     ELSE Dispatch(DeleteAll(w, chatId, Deletions(cfg, effective), dels),
                   chatId, cfg, effective, a)

(* The whole loop body for one chat id.  dels are the answers to the      *)
(* deletes of the migration cases.                                        *)
Reconcile(w, chatId, dels, a) ==
  LET cfg == IF HasKey(w.map, chatId) THEN Get(w.map, chatId) ELSE EmptyObj
      effective == Effective(chatId, cfg)
  IN IF chatId = ""
       THEN [w |-> w, r |-> [ok |-> FALSE, chat |-> chatId, reason |-> "invalid-config"]]
     ELSE IF ~Has(effective, "image_url") \/ ~TruthyUrl(effective.image_url)
       THEN [w |-> w, r |-> [ok |-> TRUE, chat |-> chatId, reason |-> "no-image"]]
     ELSE Dispatch(DeleteAll(w, chatId, Deletions(cfg, effective), dels),
                   chatId, cfg, effective, a)


(***************************************************************************)
(* The state of a run.                                                     *)
(*   file            the array stored in graphenko-chats.json              *)
(*   messageMap      the in-memory map, mapDirty its dirty flag            *)
(*   updates         the batch getUpdates returned, lastUpdateId its last  *)
(*                   update id (<<>> for null)                             *)
(*   newlyRegistered the chat ids registerFromUpdates returned             *)
(*   allIds, idx     the keys the main loop runs over, and the position    *)
(*                   of the loop in progress                               *)
(*   pc              the position of the entry point                       *)
(*   results         the outcomes pushed by the main loop                  *)
(*   calls           the gateway calls of the run and the fetches of       *)
(*                   verifyRemotePng, each with the answer it got          *)
(*   nextId          the id the gateway gives to the next new message      *)
(*   writes          the number of times the run wrote the file            *)
(*   exitCode        the exit status (-1 while the process runs)           *)
(*   run             the number of the run                                 *)
(*   mapCfg, mark    the record the last loop body started from, and the   *)
(*                   length of calls when it started                       *)
(*   prev            the outcomes and the calls of the run before this one *)
(*   mon             the monitor worker, a process of its own on the same  *)
(*                   file: its position, the map it loaded, the status it  *)
(*                   observed, its clock, the number of checks done and    *)
(*                   the notifications it sent                             *)
(***************************************************************************)
VARIABLES file, messageMap, mapDirty, updates, lastUpdateId, newlyRegistered,
          allIds, idx, pc, results, calls, nextId, writes, exitCode, run,
          mapCfg, mark, prev, mon

vars == <<file, messageMap, mapDirty, updates, lastUpdateId, newlyRegistered,
          allIds, idx, pc, results, calls, nextId, writes, exitCode, run,
          mapCfg, mark, prev, mon>>

World == [map |-> messageMap, dirty |-> mapDirty, calls |-> calls, nextId |-> nextId]

Commit(w) ==
  /\ messageMap' = w.map
  /\ mapDirty' = w.dirty
  /\ calls' = w.calls
  /\ nextId' = w.nextId

Tuples(S, n) == [1..n -> S]

(***************************************************************************)
(* The inputs of the model: the files a run may start from and the         *)
(* updates the gateway may deliver.                                        *)
(***************************************************************************)
ChatNumbers == <<-100111, -100222>>

ChatA == ChatNumbers[1]

ChatB == ChatNumbers[2]

PoolUrl(i) == OUTAGE_IMAGES_BASE \o "kyiv/gpv-" \o String(i) \o "-1-emergency.png"

ImageList(n) == UrlList([i \in 1..n |-> PoolUrl(i)])

IdList(from, n) == [i \in 1..n |-> from + i - 1]

ImageChoices == {Url(U_KYIV)} \cup {ImageList(n) : n \in 1..MaxAlbum}

(* Records with a configured image and nothing, a single id or album ids  *)
(* stored.                                                                *)
ConfiguredRecords(from) ==
  {[image_url |-> img] : img \in ImageChoices}
  \cup {[image_url |-> img, message_id |-> from] : img \in ImageChoices}
  \cup {[image_url |-> img, message_ids |-> IdList(from, n)] :
          img \in ImageChoices, n \in 1..MaxAlbum}

WithCaption(recs) == recs \cup {Put(r, "caption", "Custom caption") : r \in recs}

Item(chat, rec) == (String(chat) :> rec)

(* The files of the reconciliation runs: the first chat with any          *)
(* configured record, the second chat absent or with one of two records.  *)
ReconFiles ==
  {<<Item(ChatA, r)>> : r \in WithCaption(ConfiguredRecords(10))}
  \cup {<<Item(ChatA, r), Item(ChatB, q)>> :
          r \in WithCaption(ConfiguredRecords(10)),
          q \in {[image_url |-> Url(U_ODESA), message_id |-> 20],
                 [image_url |-> ImageList(2)]}}


(* The files of a full run: the first chat absent, registered without an  *)
(* image, waiting with a welcome message, or configured; the second chat  *)
(* absent, or configured next to a first chat without an image.           *)
RunRecordsA ==
  {EmptyObj,
   [welcome_message_id |-> 5],
   [image_url |-> Url(U_KYIV), message_id |-> 10, caption |-> "Custom caption"],
   [image_url |-> ImageList(2), message_id |-> 10],
   [image_url |-> ImageList(2), message_ids |-> IdList(10, 2)]}

RunRecordsB == {[image_url |-> Url(U_ODESA)]}

RunFiles ==
  {<<>>}
  \cup {<<Item(ChatA, r)>> : r \in RunRecordsA}
  \cup {<<Item(ChatA, EmptyObj), Item(ChatB, q)>> : q \in RunRecordsB}

(* The files of consecutive runs: one chat edited in place (a string or   *)
(* a one-element list, custom or default caption), not yet sent to (one    *)
(* image or an album) or stored in the other representation, and possibly  *)
(* a second chat that waits for its image.                                 *)
RunsRecords ==
  {[image_url |-> Url(U_KYIV), message_id |-> 10],
   [image_url |-> Url(U_KYIV), message_id |-> 10, caption |-> "Custom caption"],
   [image_url |-> ImageList(1), message_id |-> 10],
   [image_url |-> Url(U_KYIV)],
   [image_url |-> ImageList(2)],
   [image_url |-> ImageList(2), message_id |-> 10],
   [image_url |-> Url(U_KYIV), message_ids |-> IdList(10, 2)]}

RunsFiles ==
  {<<Item(ChatA, r)>> : r \in RunsRecords}
  \cup {<<Item(ChatA, r), Item(ChatB, EmptyObj)>> : r \in RunsRecords}

(* Membership updates and command messages.                               *)
Membership(chat, type, status) ==
  [my_chat_member |-> [chat |-> [id |-> chat, type |-> type],
                       new_chat_member |-> [status |-> status]]]

Message(chat, mid, text) ==
  [message |-> [message_id |-> mid, chat |-> [id |-> chat, type |-> "supergroup"],
                text |-> text]]

ChannelPost(chat, mid, text) ==
  [channel_post |-> [message_id |-> mid, chat |-> [id |-> chat, type |-> "channel"],
                     text |-> text]]

CaptionText(arg) == <<Word("/graphenko_caption"), Space(1)>> \o arg

ImageText(url) == <<Word("/graphenko_image"), Space(1), Word(url)>>

RunUpdates ==
  {Membership(ChatA, "channel", "administrator"),
   Membership(ChatA, "channel", "left"),
   Membership(ChatB, "supergroup", "member"),
   ChannelPost(ChatA, 7, CaptionText(<<Word("Hello")>>)),
   ChannelPost(ChatA, 8, ImageText(U_ODESA)),
   ChannelPost(ChatA, 9, ImageText(U_ELSEWHERE))}

(* The membership updates of the registration runs: every status for the  *)
(* first chat as a channel, some for the second chat as a supergroup or a  *)
(* group, a private chat, an update without chat and one without           *)
(* new_chat_member.                                                        *)
RegUpdates ==
  {Membership(ChatA, "channel", st) :
     st \in {"administrator", "creator", "member", "left", "kicked", "restricted",
             "banned"}}
  \cup {Membership(ChatB, "supergroup", "member"), Membership(ChatB, "supergroup", "kicked"),
        Membership(ChatB, "group", "creator"),
        Membership(ChatB, "private", "member"), Membership(ChatB, "private", "left"),
        [my_chat_member |-> [new_chat_member |-> [status |-> "administrator"]]],
        [my_chat_member |-> [chat |-> [id |-> ChatB, type |-> "channel"]]]}

(* The files of the registration runs: each chat absent, registered       *)
(* without an image, or holding fields; a record under the empty key.      *)
RegRecordsA ==
  {EmptyObj,
   [image_url |-> Url(U_KYIV), caption |-> "Custom caption", message_id |-> 10]}

RegRecordsB == {[welcome_message_id |-> 5, monitor_host |-> "192.0.2.1"]}

RegFiles ==
  {<<>>}
  \cup {<<Item(ChatA, r)>> : r \in RegRecordsA}
  \cup {<<Item(ChatB, q)>> : q \in RegRecordsB}
  \cup {<<Item(ChatA, r), Item(ChatB, q)>> : r \in RegRecordsA, q \in RegRecordsB}
  \cup {<<("" :> [caption |-> "Custom caption"]), Item(ChatA, r)>> : r \in RegRecordsA}

(* The updates of the command runs: image commands with a valid URL, a   *)
(* URL that is no PNG, a URL outside the base path and a relative URL, a   *)
(* caption reset, a caption command followed by whitespace alone, a plain  *)
(* message and a membership update.                                        *)
CmdUpdates ==
  {ChannelPost(ChatA, 8, ImageText(U_KYIV)),
   ChannelPost(ChatA, 9, ImageText(U_JPG)),
   Message(ChatA, 11, ImageText(U_ELSEWHERE)),
   Message(ChatB, 12, ImageText(U_RELATIVE)),
   ChannelPost(ChatA, 7, CaptionText(<<Word("-default")>>)),
   ChannelPost(ChatA, 15, <<Word("/graphenko_caption"), Space(3)>>),
   Message(ChatA, 16, CaptionText(<<Word("Hello"), Space(1)>>)),
   Message(ChatA, 14, <<Word("hello")>>),
   Membership(ChatB, "channel", "administrator")}

(* The files of the command runs: the first chat absent, registered,      *)
(* waiting with a welcome message, or configured.                          *)
CmdRecords ==
  {EmptyObj,
   [welcome_message_id |-> 5],
   [welcome_message_id |-> 5, caption |-> "Custom caption"],
   [image_url |-> Url(U_ODESA), message_id |-> 10, caption |-> "Custom caption"]}

CmdFiles == {<<>>} \cup {<<Item(ChatA, r)>> : r \in CmdRecords}

(* The batches getUpdates may return from a set of updates: every         *)
(* sequence of at most MaxUpdates of them, numbered in order.             *)
Numbered(us) == [i \in 1..Len(us) |-> Put(us[i], "update_id", 700 + i)]

Batches(U) == UNION {{Numbered(us) : us \in Tuples(U, n)} : n \in 0..MaxUpdates}

(***************************************************************************)
(* The entry point.                                                        *)
(***************************************************************************)
(* The monitor worker before its loop: nothing loaded, nothing sent.      *)
MonitorStart ==
  [pc |-> "load", map |-> <<>>, status |-> "", now |-> 1700000100, checks |-> 0,
   sent |-> <<>>]

StartFrom(f) ==
  /\ file = f
  /\ mon = MonitorStart
  /\ messageMap = loadMessageMapFromFile(f).map
  /\ mapDirty = loadMessageMapFromFile(f).wasNormalized
  /\ updates = <<>>
  /\ lastUpdateId = <<>>
  /\ newlyRegistered = <<>>
  /\ allIds = <<>>
  /\ idx = 1
  /\ pc = "getUpdates"
  /\ results = <<>>
  /\ calls = <<>>
  /\ nextId = 100
  /\ writes = 0
  /\ exitCode = -1
  /\ run = 1
  /\ mapCfg = EmptyObj
  /\ mark = 0
  /\ prev = [results |-> <<>>, calls |-> <<>>]

Init == \E f \in RunFiles : StartFrom(f)

InitRecon == \E f \in ReconFiles : StartFrom(f)

(* getUpdates: the batch, and the id of its last update.  A failed fetch  *)
(* yields the empty batch, as a fetch with nothing pending does.          *)
GetUpdates(U) ==
  /\ pc = "getUpdates"
  /\ \E us \in Batches(U) :
       /\ updates' = us
       /\ lastUpdateId' = IF us = <<>> THEN <<>> ELSE <<us[Len(us)].update_id>>
       /\ pc' = IF us = <<>> THEN "welcome" ELSE "register"
  /\ calls' = Append(calls, [op |-> "getUpdates"])
  /\ idx' = 1
  /\ UNCHANGED <<mon, file, messageMap, mapDirty, newlyRegistered, allIds, results, nextId,
                 writes, exitCode, run, mapCfg, mark, prev>>

FetchUpdates == GetUpdates(RunUpdates)

FetchNothing == GetUpdates({})

FetchMemberships == GetUpdates(RegUpdates)

FetchCommands == GetUpdates(CmdUpdates)

RegisterFromUpdates ==
  /\ pc = "register"
  /\ LET done == registerFromUpdates(World, updates)
     IN /\ Commit(done.w)
        /\ newlyRegistered' = done.newlyRegistered
  /\ pc' = "commands"
  /\ idx' = 1
  /\ UNCHANGED <<mon, file, updates, lastUpdateId, allIds, results, writes, exitCode, run,
                 mapCfg, mark, prev>>

(* The answers one iteration of processCommandUpdates can receive.        *)
ReplyAnswers(n) == {SentMessage(n), NetworkError}

Responses == {Response(TRUE, "image/png"), Response(TRUE, "text/html"),
              Response(FALSE, ""), NetworkError}

IsImageUpdate(u) ==
  /\ HasMessage(u)
  /\ ~CaptionMatch(TextOfMessage(MessageOf(u))).matched
  /\ ImageMatch(TextOfMessage(MessageOf(u))).matched
  /\ isValidOutageImageUrl(ImageMatch(TextOfMessage(MessageOf(u))).url)

CommandAnswers(u) ==
  {[reply |-> reply, del |-> del, head |-> head, get |-> get, wdel |-> wdel] :
     reply \in ReplyAnswers(nextId), del \in DeleteAnswers,
     head \in (IF IsImageUpdate(u) THEN Responses ELSE {NetworkError}),
     get \in (IF IsImageUpdate(u)
                THEN {Response(TRUE, "image/png"), Response(FALSE, ""), NetworkError}
                ELSE {NetworkError}),
     wdel \in (IF IsImageUpdate(u) THEN DeleteAnswers \cup {NetworkError}
                                   ELSE {NetworkError})}

ProcessCommand ==
  /\ pc = "commands"
  /\ idx <= Len(updates)
  /\ \E a \in CommandAnswers(updates[idx]) :
       Commit(ProcessCommandUpdate(World, updates[idx], a))
  /\ idx' = IF idx = Len(updates) THEN 1 ELSE idx + 1
  /\ pc' = IF idx = Len(updates) THEN "welcome" ELSE "commands"
  /\ UNCHANGED <<mon, file, updates, lastUpdateId, newlyRegistered, allIds, results, writes,
                 exitCode, run, mapCfg, mark, prev>>

WelcomeAnswers(n) == {SentMessage(n), Err(403, D_NOT_MEMBER), NetworkError}

Welcome ==
  /\ pc = "welcome"
  /\ idx <= Len(newlyRegistered)
  /\ \E ans \in WelcomeAnswers(nextId) :
       Commit(sendWelcomeMessage(World, newlyRegistered[idx], ans))
  /\ idx' = idx + 1
  /\ UNCHANGED <<mon, file, updates, lastUpdateId, newlyRegistered, allIds, pc, results,
                 writes, exitCode, run, mapCfg, mark, prev>>

(* The start of the loop that leaves the first key out.                   *)
StartLoopWithoutFirst ==
  /\ pc = "welcome"
  /\ idx > Len(newlyRegistered)
  /\ allIds' = IF messageMap = <<>> THEN <<>> ELSE Tail(KeysOf(messageMap))
  /\ idx' = 1
  /\ pc' = "loop"
  /\ UNCHANGED <<mon, file, messageMap, mapDirty, updates, lastUpdateId, newlyRegistered,
                 results, calls, nextId, writes, exitCode, run, mapCfg, mark, prev>>

(* const allIds = Object.keys(messageMap)                                 *)
StartLoop ==
  /\ pc = "welcome"
  /\ idx > Len(newlyRegistered)
  /\ allIds' = KeysOf(messageMap)
  /\ idx' = 1
  /\ pc' = "loop"
  /\ UNCHANGED <<mon, file, messageMap, mapDirty, updates, lastUpdateId, newlyRegistered,
                 results, calls, nextId, writes, exitCode, run, mapCfg, mark, prev>>

(* The answers the loop body for one chat can receive.                    *)
SendAnswers(cfg, effective) ==
  (IF IsAlbumConfig(effective)
     THEN {SentGroup(nextId, Len(effective.image_url.list))}
     ELSE {SentMessage(nextId)})
  \cup SendErrors

EditAnswers == {EditedMessage} \cup EditErrors

ReplaceAnswered(ans) ==
  /\ ~Threw(ans) /\ ~ans.ok
  /\ ~IsNotModified(ans) /\ ~IsTopicClosed(ans) /\ ans.error_code = 400

DispatchAnswers(cfg, effective) ==
  IF Mode(cfg, effective) = "send"
    THEN {[send |-> s] : s \in SendAnswers(cfg, effective)}
  ELSE IF IsAlbumConfig(effective)
    THEN {[edits |-> es] : es \in Tuples(EditAnswers, Len(cfg.message_ids))}
  ELSE {[edit |-> e, del |-> NetworkError, sent |-> NetworkError] :
          e \in {x \in EditAnswers : ~ReplaceAnswered(x)}}
       \cup {[edit |-> e, del |-> d, sent |-> s] :
               e \in {x \in EditAnswers : ReplaceAnswered(x)},
               d \in DeleteAnswers \cup {NetworkError},
               s \in SendAnswers(cfg, effective)}

ReconcileChat ==
  /\ pc = "loop"
  /\ idx <= Len(allIds)
  /\ LET chatId == allIds[idx]
         cfg == IF HasKey(messageMap, chatId) THEN Get(messageMap, chatId) ELSE EmptyObj
         effective == Effective(chatId, cfg)
         silent == chatId = "" \/ ~Has(effective, "image_url")
                     \/ ~TruthyUrl(effective.image_url)
     IN /\ mapCfg' = cfg
        /\ mark' = Len(calls)
        /\ \E dels \in Tuples(DeleteAnswers,
                              IF silent THEN 0 ELSE Len(Deletions(cfg, effective))) :
             \E a \in (IF silent THEN {EmptyObj} ELSE DispatchAnswers(cfg, effective)) :
               LET done == Reconcile(World, chatId, dels, a)
               IN /\ Commit(done.w)
                  /\ results' = Append(results, done.r)
  /\ idx' = idx + 1
  /\ UNCHANGED <<mon, file, updates, lastUpdateId, newlyRegistered, allIds, pc, writes,
                 exitCode, run, prev>>

(* The save step that writes the file whatever the dirty flag says.       *)
SaveMapAlways ==
  /\ pc = "loop"
  /\ idx > Len(allIds)
  /\ writes' = writes + 1
  /\ \E ok \in BOOLEAN :
       file' = IF ok THEN saveMessageMapToFile(messageMap) ELSE file
  /\ pc' = "ack"
  /\ UNCHANGED <<mon, messageMap, mapDirty, updates, lastUpdateId, newlyRegistered, allIds,
                 idx, results, calls, nextId, exitCode, run, mapCfg, mark, prev>>

(* The save step: the file is written when the map is dirty; the write    *)
(* can fail.                                                              *)
SaveMap ==
  /\ pc = "loop"
  /\ idx > Len(allIds)
  /\ IF mapDirty
       THEN /\ writes' = writes + 1
            /\ \E ok \in BOOLEAN :
                 file' = IF ok THEN saveMessageMapToFile(messageMap) ELSE file
       ELSE UNCHANGED <<file, writes>>
  /\ pc' = "ack"
  /\ UNCHANGED <<mon, messageMap, mapDirty, updates, lastUpdateId, newlyRegistered, allIds,
                 idx, results, calls, nextId, exitCode, run, mapCfg, mark, prev>>

(* ackUpdates(lastUpdateId): getUpdates with the offset after the batch.  *)
(* The acknowledgement that asks again from the last update fetched.      *)
AckUpdatesFromLast ==
  /\ pc = "ack"
  /\ calls' = IF lastUpdateId # <<>>
                THEN Append(calls, [op |-> "getUpdates", offset |-> lastUpdateId[1]])
                ELSE calls
  /\ pc' = "summary"
  /\ UNCHANGED <<mon, file, messageMap, mapDirty, updates, lastUpdateId, newlyRegistered,
                 allIds, idx, results, nextId, writes, exitCode, run, mapCfg, mark, prev>>

AckUpdates ==
  /\ pc = "ack"
  /\ calls' = IF lastUpdateId # <<>>
                THEN Append(calls, [op |-> "getUpdates", offset |-> lastUpdateId[1] + 1])
                ELSE calls
  /\ pc' = "summary"
  /\ UNCHANGED <<mon, file, messageMap, mapDirty, updates, lastUpdateId, newlyRegistered,
                 allIds, idx, results, nextId, writes, exitCode, run, mapCfg, mark, prev>>

(* The filter that counts every outcome that is not ok.                   *)
IsFailureAny(r) == ~r.ok

(* results.filter(r => !r.ok && r.reason !== 'invalid-config')            *)
IsFailure(r) == ~r.ok /\ ~(Has(r, "reason") /\ r.reason = "invalid-config")

Failures == {i \in 1..Len(results) : IsFailure(results[i])}

Exit ==
  /\ pc = "summary"
  /\ exitCode' = IF Failures # {} THEN 10 ELSE 0
  /\ pc' = "done"
  /\ UNCHANGED <<mon, file, messageMap, mapDirty, updates, lastUpdateId, newlyRegistered,
                 allIds, idx, results, calls, nextId, writes, run, mapCfg, mark, prev>>

Next ==
  \/ FetchUpdates
  \/ RegisterFromUpdates
  \/ ProcessCommand
  \/ Welcome
  \/ StartLoop
  \/ ReconcileChat
  \/ SaveMap
  \/ AckUpdates
  \/ Exit

Spec == Init /\ [][Next]_vars

(* The next start of the process: the map is loaded from the file again,  *)
(* everything else starts afresh; the gateway goes on numbering.           *)
NextRun ==
  /\ pc = "done"
  /\ run < MaxRuns
  /\ prev' = [results |-> results, calls |-> calls]
  /\ messageMap' = loadMessageMapFromFile(file).map
  /\ mapDirty' = loadMessageMapFromFile(file).wasNormalized
  /\ updates' = <<>>
  /\ lastUpdateId' = <<>>
  /\ newlyRegistered' = <<>>
  /\ allIds' = <<>>
  /\ idx' = 1
  /\ pc' = "getUpdates"
  /\ results' = <<>>
  /\ calls' = <<>>
  /\ writes' = 0
  /\ exitCode' = -1
  /\ run' = run + 1
  /\ mapCfg' = EmptyObj
  /\ mark' = 0
  /\ UNCHANGED <<mon, file, nextId>>

NextRecon ==
  \/ FetchNothing
  \/ StartLoop
  \/ ReconcileChat
  \/ SaveMap
  \/ AckUpdates
  \/ Exit

SpecRecon == InitRecon /\ [][NextRecon]_vars

InitReg == \E f \in RegFiles : StartFrom(f)

NextReg ==
  \/ FetchMemberships
  \/ RegisterFromUpdates
  \/ ProcessCommand
  \/ Welcome
  \/ StartLoop
  \/ ReconcileChat
  \/ SaveMap
  \/ AckUpdates
  \/ Exit

SpecReg == InitReg /\ [][NextReg]_vars

InitCmd == \E f \in CmdFiles : StartFrom(f)

NextCmd ==
  \/ FetchCommands
  \/ RegisterFromUpdates
  \/ ProcessCommand
  \/ Welcome
  \/ StartLoop
  \/ ReconcileChat
  \/ SaveMap
  \/ AckUpdates
  \/ Exit

SpecCmd == InitCmd /\ [][NextCmd]_vars

InitRuns == \E f \in RunsFiles : StartFrom(f)

NextRuns ==
  \/ FetchNothing
  \/ StartLoop
  \/ ReconcileChat
  \/ SaveMap
  \/ AckUpdates
  \/ Exit
  \/ NextRun

SpecRuns == InitRuns /\ [][NextRuns]_vars

(***************************************************************************)
(* The reconciliation step that has just run: its chat, the configuration  *)
(* it used and the gateway calls it issued (pins apart).                   *)
(***************************************************************************)
StepDone == pc = "loop" /\ idx > 1

StepChat == allIds[idx - 1]

StepEffective == Effective(StepChat, mapCfg)

StepCalls == SubSeq(calls, mark + 1, Len(calls))

OfOps(cs, ops) == SelectSeq(cs, LAMBDA c : c.op \in ops)

StepWork == OfOps(StepCalls, {"deleteMessage", "sendPhoto", "sendMediaGroup",
                              "editMessageMedia"})

StepResult == results[Len(results)]

Configured(cfg) == Has(cfg, "image_url") /\ TruthyUrl(cfg.image_url)

AtMostOneStored(cfg) == ~(Has(cfg, "message_id") /\ Has(cfg, "message_ids"))

SendOp(effective) == IF IsAlbumConfig(effective) THEN "sendMediaGroup" ELSE "sendPhoto"

(* cs is one delete per id of ids, in order, then one call of op.         *)
DeletesThenSend(cs, ids, op) ==
  /\ Len(cs) = Len(ids) + 1
  /\ \A i \in 1..Len(ids) : cs[i].op = "deleteMessage" /\ cs[i].message_id = ids[i]
  /\ cs[Len(cs)].op = op

(* cs is one edit per id of ids, by position.                             *)
EditsByPosition(cs, ids) ==
  /\ Len(cs) = Len(ids)
  /\ \A i \in 1..Len(ids) : cs[i].op = "editMessageMedia" /\ cs[i].message_id = ids[i]

(* C1: for a chat with an image_url whose record holds at most one of     *)
(* message_id / message_ids, the calls of one reconciliation step are the  *)
(* ones the table of mode transitions gives: stored single + album -> a    *)
(* delete of the stored id, then an album send; stored album + single ->   *)
(* a delete per stored id, then a single send; stored album + album of     *)
(* another size -> a delete per stored id, then an album send; stored      *)
(* album + album of the same size -> an edit per stored id by position;    *)
(* stored single + single -> the first call is an edit of the stored id;   *)
(* nothing stored -> one send of the effective mode and no delete.         *)
C1_ModeTransitionTable ==
  (StepDone /\ Configured(mapCfg) /\ AtMostOneStored(mapCfg)) =>
    LET album == IsAlbumConfig(StepEffective)
    IN /\ \A i \in 1..Len(StepCalls) : StepCalls[i].chat_id = StepChat
       /\ CASE KnownSingle(mapCfg) /\ album ->
                 DeletesThenSend(StepWork, <<mapCfg.message_id>>, "sendMediaGroup")
            [] KnownAlbum(mapCfg) /\ ~album ->
                 DeletesThenSend(StepWork, mapCfg.message_ids, "sendPhoto")
            [] KnownAlbum(mapCfg) /\ album
                 /\ Len(mapCfg.message_ids) # Len(StepEffective.image_url.list) ->
                 DeletesThenSend(StepWork, mapCfg.message_ids, "sendMediaGroup")
            [] KnownAlbum(mapCfg) /\ album
                 /\ Len(mapCfg.message_ids) = Len(StepEffective.image_url.list) ->
                 EditsByPosition(StepWork, mapCfg.message_ids)
            [] KnownSingle(mapCfg) /\ ~album ->
                 /\ Len(StepWork) >= 1
                 /\ StepWork[1].op = "editMessageMedia"
                 /\ StepWork[1].message_id = mapCfg.message_id
            [] OTHER ->
                 /\ Len(OfOps(StepCalls, {"sendPhoto", "sendMediaGroup"})) = 1
                 /\ OfOps(StepCalls, {"sendPhoto", "sendMediaGroup"})[1].op
                      = SendOp(StepEffective)
                 /\ OfOps(StepCalls, {"deleteMessage"}) = <<>>

(* A step for a chat with two stored album ids and three images has       *)
(* deleted both and sent the album of three.                              *)
C1_Witness ==
  /\ StepDone
  /\ Has(mapCfg, "message_ids") /\ mapCfg.message_ids = IdList(10, 2)
  /\ ~Has(mapCfg, "message_id")
  /\ mapCfg.image_url = ImageList(3)
  /\ DeletesThenSend(StepWork, IdList(10, 2), "sendMediaGroup")

(***************************************************************************)
(* The sends of the step, and the steps that switch the representation or  *)
(* resend an album.                                                        *)
(***************************************************************************)
Succeeded(ans) == ~Threw(ans) /\ ans.ok

StepSends == OfOps(StepCalls, {"sendPhoto", "sendMediaGroup"})

StepSwitched ==
  \/ IsAlbumConfig(StepEffective) /\ KnownSingle(mapCfg)
  \/ ~IsAlbumConfig(StepEffective) /\ KnownAlbum(mapCfg)
  \/ AlbumSizeDiffers(mapCfg, StepEffective)

ReturnedIds(ans) == [i \in 1..Len(ans.result) |-> ans.result[i].message_id]

(* C2: when a step switches the representation or resends an album and    *)
(* the send succeeds, the record then holds only the ids that send         *)
(* returned, in the representation of the mode used (message_ids in order  *)
(* and no message_id after an album send, message_id and no message_ids    *)
(* after a single send), and the map is dirty.                             *)
C2_StoredIdsFollowTheSend ==
  (/\ StepDone /\ Configured(mapCfg) /\ StepSwitched
   /\ Len(StepSends) = 1 /\ Succeeded(StepSends[1].ans)) =>
    /\ HasKey(messageMap, StepChat)
    /\ LET rec == Get(messageMap, StepChat)
           ans == StepSends[1].ans
       IN IF IsAlbumConfig(StepEffective)
            THEN /\ ~Has(rec, "message_id")
                 /\ Has(rec, "message_ids")
                 /\ rec.message_ids = ReturnedIds(ans)
            ELSE /\ ~Has(rec, "message_ids")
                 /\ Has(rec, "message_id")
                 /\ rec.message_id = ans.result.message_id
    /\ mapDirty

(* A step has switched a chat with the single id 10 to an album of two    *)
(* and stored the two ids the send returned.                              *)
C2_Witness ==
  /\ StepDone
  /\ KnownSingle(mapCfg) /\ mapCfg.message_id = 10
  /\ mapCfg.image_url = ImageList(2)
  /\ Len(StepSends) = 1 /\ Succeeded(StepSends[1].ans)
  /\ Get(messageMap, StepChat).message_ids = IdList(100, 2)

(***************************************************************************)
(* The records of the map.                                                 *)
(***************************************************************************)
HoldsBoth(rec) == Has(rec, "message_id") /\ Has(rec, "message_ids")

(* C3: from a map in which no record holds both message_id and            *)
(* message_ids, no record holds both after any sequence of registration,   *)
(* command, welcome and reconciliation steps, whatever the gateway         *)
(* answers.                                                                *)
C3_NeverBothRepresentations ==
  \A i \in 1..Len(messageMap) : ~HoldsBoth(messageMap[i].v)

(* A chat stored as an album of two was made single by an image command   *)
(* of the same run, and the step stored the id of the single send alone.   *)
C3_Witness ==
  /\ StepDone
  /\ KnownAlbum(mapCfg) /\ ~IsAlbumConfig(StepEffective)
  /\ \E i \in 1..Len(calls) :
       calls[i].op = "sendMessage" /\ calls[i].text = T_IMAGE_SAVED
  /\ HasKey(messageMap, StepChat)
  /\ Has(Get(messageMap, StepChat), "message_id")
  /\ ~Has(Get(messageMap, StepChat), "message_ids")

(***************************************************************************)
(* The previous run's calls and outcome for a chat.                        *)
(***************************************************************************)
WorkOps == {"deleteMessage", "sendPhoto", "sendMediaGroup", "editMessageMedia"}

PrevWork(chat) ==
  SelectSeq(prev.calls, LAMBDA c : c.op \in WorkOps /\ c.chat_id = chat)

PrevOutcomes(chat) == SelectSeq(prev.results, LAMBDA r : r.chat = chat)

(* The call is an edit the gateway answered with success or with 400      *)
(* "message is not modified".                                             *)
EditAccepted(c) ==
  /\ c.op = "editMessageMedia"
  /\ ~Threw(c.ans)
  /\ (c.ans.ok \/ (c.ans.error_code = 400 /\ c.ans.description = D_NOT_MODIFIED))

SameEdit(c, d) ==
  c.message_id = d.message_id /\ c.media = d.media /\ c.caption = d.caption

(* C4: a single-mode chat reconciled in two consecutive runs with the     *)
(* same effective configuration and the same stored message_id, each edit  *)
(* answered with success or 400 "message is not modified", has an ok       *)
(* outcome in both runs, no send and no delete in either, and the stored   *)
(* message_id it had.                                                      *)
C4_EditIsIdempotent ==
  (/\ StepDone /\ run > 1
   /\ Configured(mapCfg) /\ ~IsAlbumConfig(StepEffective)
   /\ KnownSingle(mapCfg) /\ ~KnownAlbum(mapCfg)
   /\ PrevWork(StepChat) # <<>>
   /\ EditAccepted(PrevWork(StepChat)[1])
   /\ EditAccepted(StepWork[1])
   /\ SameEdit(PrevWork(StepChat)[1], StepWork[1])
   /\ StepWork[1].message_id = mapCfg.message_id) =>
    /\ Len(PrevWork(StepChat)) = 1
    /\ Len(StepWork) = 1
    /\ Len(PrevOutcomes(StepChat)) = 1 /\ PrevOutcomes(StepChat)[1].ok
    /\ StepResult.ok /\ StepResult.chat = StepChat
    /\ HasKey(messageMap, StepChat)
    /\ Has(Get(messageMap, StepChat), "message_id")
    /\ Get(messageMap, StepChat).message_id = mapCfg.message_id
    /\ ~Has(Get(messageMap, StepChat), "message_ids")

(* The second run has edited message 10 again, the first edit having      *)
(* succeeded and the second been answered "message is not modified".       *)
C4_Witness ==
  /\ StepDone /\ run = 2
  /\ KnownSingle(mapCfg) /\ mapCfg.message_id = 10
  /\ Len(PrevWork(StepChat)) = 1
  /\ PrevWork(StepChat)[1].op = "editMessageMedia"
  /\ PrevWork(StepChat)[1].ans = EditedMessage
  /\ Len(StepWork) = 1
  /\ StepWork[1].op = "editMessageMedia"
  /\ StepWork[1].ans = Err(400, D_NOT_MODIFIED)
  /\ Get(messageMap, StepChat).message_id = 10

(***************************************************************************)
(* The answers that report the bot is no member of the chat.               *)
(***************************************************************************)
NotMemberAnswer(ans) ==
  /\ ~Threw(ans) /\ ~ans.ok /\ ans.error_code = 403
  /\ ans.description \in {D_NOT_MEMBER, D_NOT_MEMBER_UC}

Outcomes(chat) == SelectSeq(results, LAMBDA r : r.chat = chat)

(* C5: once the single-photo send for a chat was answered 403 "not a      *)
(* member", the chat has no record in the map for the rest of the run, the *)
(* map is dirty, the chat's outcome is ok with reason "unregistered" and   *)
(* is no failure, so that a run with no other failure exits with status 0. *)
C5_SendRemovesNonMember ==
  \A i \in 1..Len(calls) :
    (calls[i].op = "sendPhoto" /\ NotMemberAnswer(calls[i].ans)) =>
      /\ ~HasKey(messageMap, calls[i].chat_id)
      /\ mapDirty
      /\ Len(Outcomes(calls[i].chat_id)) = 1
      /\ Outcomes(calls[i].chat_id)[1].ok
      /\ Outcomes(calls[i].chat_id)[1].reason = "unregistered"
      /\ ~IsFailure(Outcomes(calls[i].chat_id)[1])
      /\ (pc = "done" /\ (\A j \in 1..Len(results) :
                             results[j].chat # calls[i].chat_id => results[j].ok)
            => exitCode = 0)

(* A run whose send to the first chat was answered 403 "not a member",    *)
(* with a second chat reconciled after it, has ended with status 0 and     *)
(* without the first chat.                                                 *)
C5_Witness ==
  /\ pc = "done" /\ exitCode = 0
  /\ Len(results) = 2
  /\ \E i \in 1..Len(calls) :
       /\ calls[i].op = "sendPhoto" /\ calls[i].ans = Err(403, D_NOT_MEMBER)
       /\ calls[i].chat_id = String(ChatA)
  /\ ~HasKey(messageMap, String(ChatA))
  /\ HasKey(messageMap, String(ChatB))
  /\ file = saveMessageMapToFile(messageMap)

(* C6: during reconciliation a chat's record is deleted if and only if    *)
(* one of the send or edit calls made for the chat (single send, album     *)
(* send, single edit, album-item edit) was answered 403 with a description *)
(* containing "not a member", in any letter case.                          *)
C6_RemovedIffNotMember ==
  StepDone =>
    (~HasKey(messageMap, StepChat)
       <=> \E i \in 1..Len(StepCalls) :
             /\ StepCalls[i].op \in {"sendPhoto", "sendMediaGroup", "editMessageMedia"}
             /\ NotMemberAnswer(StepCalls[i].ans))

(***************************************************************************)
(* The membership updates of the batch.                                    *)
(***************************************************************************)
IsMembership(u, chat, statuses) ==
  /\ Has(u, "my_chat_member")
  /\ Has(u.my_chat_member, "chat")
  /\ u.my_chat_member.chat.id = chat
  /\ StatusOf(u.my_chat_member) \in statuses

JoinedThenLeft(chat) ==
  \E i, j \in 1..Len(updates) :
    /\ i < j
    /\ IsMembership(updates[i], chat, {"member", "administrator"})
    /\ IsMembership(updates[j], chat, {"left"})
    /\ \A k \in (j + 1)..Len(updates) :
         ~IsMembership(updates[k], chat, {"member", "administrator", "creator"})

(* C7: a run whose batch holds, for one chat id, a membership update to   *)
(* member or administrator followed by one to left ends with a map that    *)
(* does not contain the chat id, and reports no failure for it.            *)
C7_JoinThenLeaveLeavesNoRecord ==
  pc = "done" =>
    \A n \in 1..Len(ChatNumbers) :
      JoinedThenLeft(ChatNumbers[n]) =>
        /\ ~HasKey(messageMap, String(ChatNumbers[n]))
        /\ \A r \in 1..Len(Outcomes(String(ChatNumbers[n]))) :
             ~IsFailure(Outcomes(String(ChatNumbers[n]))[r])

(***************************************************************************)
(* The registration step, chat by chat.  An update counts for a chat when  *)
(* it is a membership update of that chat, of type channel, supergroup or  *)
(* group, with a joining or a leaving status.                              *)
(***************************************************************************)
Joining == {"administrator", "creator", "member"}

Leaving == {"left", "kicked", "restricted"}

Counts(u, chat, statuses) ==
  /\ IsMembership(u, chat, statuses)
  /\ u.my_chat_member.chat.type \in {"channel", "supergroup", "group"}

CountedFor(chat) ==
  SelectSeq(updates, LAMBDA u : Counts(u, chat, Joining \cup Leaving))

Registered == pc = "commands" /\ idx = 1

Loaded == loadMessageMapFromFile(file)

(* The record the registration of a batch leaves for a chat, as the claim *)
(* gives it: <<>> for no record, <<rec>> for the record rec.               *)
RecordIn(map, id) == IF HasKey(map, id) THEN <<Get(map, id)>> ELSE <<>>

LeavesSome(chat) == \E i \in 1..Len(CountedFor(chat)) :
                      Counts(CountedFor(chat)[i], chat, Leaving)

JoinsSome(chat) == \E i \in 1..Len(CountedFor(chat)) :
                     Counts(CountedFor(chat)[i], chat, Joining)

(* C8: the registration step only adds empty records and removes          *)
(* records.  A chat no counting update names keeps its record or its       *)
(* absence; a chat whose last counting update is a leaving one has no      *)
(* record; a chat whose last counting update is a joining one has its old  *)
(* record, every field unchanged, when it was registered and never left in *)
(* the batch, and an empty record otherwise; the map is dirty when a       *)
(* record was removed (or created), and as it was when nothing changed.    *)
C8_RegistrationAddsEmptyOrRemoves ==
  Registered =>
    /\ \A n \in 1..Len(ChatNumbers) :
         LET chat == ChatNumbers[n]
             id == String(chat)
             counted == CountedFor(chat)
             old == RecordIn(Loaded.map, id)
             new == RecordIn(messageMap, id)
         IN IF counted = <<>> THEN new = old
            ELSE IF Counts(counted[Len(counted)], chat, Leaving) THEN new = <<>>
            ELSE IF old # <<>> /\ ~LeavesSome(chat) THEN new = old
            ELSE new = <<EmptyObj>>
    /\ mapDirty <=>
         \/ Loaded.wasNormalized
         \/ \E n \in 1..Len(ChatNumbers) :
              \/ HasKey(Loaded.map, String(ChatNumbers[n])) /\ LeavesSome(ChatNumbers[n])
              \/ ~HasKey(Loaded.map, String(ChatNumbers[n])) /\ JoinsSome(ChatNumbers[n])
    /\ \A i \in 1..Len(messageMap) :
         \/ \E n \in 1..Len(ChatNumbers) : messageMap[i].k = String(ChatNumbers[n])
         \/ RecordIn(Loaded.map, messageMap[i].k) = <<messageMap[i].v>>
    /\ \A i \in 1..Len(Loaded.map) :
         (\A n \in 1..Len(ChatNumbers) : Loaded.map[i].k # String(ChatNumbers[n]))
           => RecordIn(messageMap, Loaded.map[i].k) = <<Loaded.map[i].v>>

(* The first chat, registered with an image, a caption and a message id,  *)
(* was reported administrator and kept its record; the second was reported *)
(* kicked and lost its record; the map is dirty.                           *)
C8_Witness ==
  /\ Registered
  /\ Len(updates) = 2
  /\ Counts(updates[1], ChatA, {"administrator"})
  /\ Counts(updates[2], ChatB, {"kicked"})
  /\ RecordIn(Loaded.map, String(ChatB)) # <<>>
  /\ RecordIn(messageMap, String(ChatB)) = <<>>
  /\ RecordIn(messageMap, String(ChatA))
       = <<[image_url |-> Url(U_KYIV), caption |-> "Custom caption", message_id |-> 10]>>
  /\ mapDirty

(***************************************************************************)
(* The command step about to run, and the calls it adds.                   *)
(***************************************************************************)
CmdStep == pc = "commands" /\ idx <= Len(updates)

CmdText == TextOfMessage(MessageOf(updates[idx]))

IsImageCmd ==
  /\ HasMessage(updates[idx])
  /\ Has(MessageOf(updates[idx]), "chat")
  /\ ~CaptionMatch(CmdText).matched
  /\ ImageMatch(CmdText).matched

CmdUrl == ImageMatch(CmdText).url

CmdChat == String(MessageOf(updates[idx]).chat.id)

NewCalls == SubSeq(calls', Len(calls) + 1, Len(calls'))

InvalidUrl(url) == ~StartsWithBase(url) \/ ~LowerEndsWithPng(url) \/ ~ParsesAsUrl(url)

(* The fetch that decided the verification is the last one issued.        *)
LastFetch(cs) == OfOps(cs, {"fetch"})[Len(OfOps(cs, {"fetch"}))]

VerificationFailed(cs) ==
  /\ OfOps(cs, {"fetch"}) # <<>>
  /\ \/ Threw(LastFetch(cs).ans)
     \/ ~LastFetch(cs).ans.ok
     \/ ~IsPngType(LastFetch(cs).ans.contentType) /\ ~LowerEndsWithPng(LastFetch(cs).url)

Verified(cs) == OfOps(cs, {"fetch"}) # <<>> /\ ~VerificationFailed(cs)

GatewayCalls(cs) == SelectSeq(cs, LAMBDA c : c.op # "fetch")

(* C9: an image command whose URL fails validation (not under the base    *)
(* path, not ending in .png, or no URL) or fails the remote verification   *)
(* leaves the map and the dirty flag as they were and sends one reply to   *)
(* the chat and nothing else: the usage error for a validation failure,    *)
(* the cannot-fetch error for a verification failure.                      *)
C9_RejectedImageCommandChangesNothing ==
  [][(CmdStep /\ IsImageCmd /\ (InvalidUrl(CmdUrl) \/ VerificationFailed(NewCalls))) =>
       /\ messageMap' = messageMap
       /\ mapDirty' = mapDirty
       /\ Len(GatewayCalls(NewCalls)) = 1
       /\ GatewayCalls(NewCalls)[1].op = "sendMessage"
       /\ GatewayCalls(NewCalls)[1].chat_id = CmdChat
       /\ GatewayCalls(NewCalls)[1].text
            = (IF InvalidUrl(CmdUrl) THEN T_BAD_URL ELSE T_NOT_PNG)]_vars

(* A batch of one image command with a valid URL whose HEAD was refused   *)
(* and whose GET failed has been processed: the cannot-fetch reply was     *)
(* sent and the map is the one loaded, not dirty.                          *)
C9_Witness ==
  /\ pc = "welcome" /\ Len(updates) = 1
  /\ Len(calls) = 4
  /\ calls[2].op = "fetch" /\ calls[2].method = "HEAD" /\ calls[2].url = U_KYIV
  /\ calls[2].ans = Response(FALSE, "")
  /\ calls[3].op = "fetch" /\ calls[3].method = "GET" /\ calls[3].ans = NetworkError
  /\ calls[4].op = "sendMessage" /\ calls[4].text = T_NOT_PNG
  /\ messageMap = Loaded.map /\ messageMap # <<>>
  /\ ~mapDirty

(***************************************************************************)
(* The welcome message pending for the chat of the command, and the        *)
(* answer to its delete.                                                   *)
(***************************************************************************)
PendingWelcome ==
  /\ HasKey(messageMap, CmdChat)
  /\ Has(Get(messageMap, CmdChat), "welcome_message_id")
  /\ Get(messageMap, CmdChat).welcome_message_id # 0

DeleteSucceeded(ans) ==
  /\ ~Threw(ans)
  /\ (ans.ok \/ (ans.error_code = 400 /\ ans.description = D_DELETE_NOT_FOUND))

AcceptedImageCmd ==
  CmdStep /\ IsImageCmd /\ ~InvalidUrl(CmdUrl) /\ Verified(NewCalls)

WelcomeDeleteIssued ==
  /\ OfOps(NewCalls, {"deleteMessage"}) # <<>>
  /\ OfOps(NewCalls, {"deleteMessage"})[1].chat_id = CmdChat
  /\ OfOps(NewCalls, {"deleteMessage"})[1].message_id
       = Get(messageMap, CmdChat).welcome_message_id

(* C10 as stated: after an image command with a verified valid URL the    *)
(* chat's record has image_url equal to the URL and no welcome_message_id, *)
(* the map is dirty, and a delete was issued for the pending welcome       *)
(* message if there was one.                                               *)
C10_WelcomeAlwaysCleared ==
  [][AcceptedImageCmd =>
       /\ HasKey(messageMap', CmdChat)
       /\ Get(messageMap', CmdChat).image_url = Url(CmdUrl)
       /\ ~Has(Get(messageMap', CmdChat), "welcome_message_id")
       /\ mapDirty'
       /\ (PendingWelcome => WelcomeDeleteIssued)]_vars

(* C10, amended: after an image command with a verified valid URL the     *)
(* chat's record has image_url equal to the URL, the map is dirty, and a   *)
(* delete was issued for the pending welcome message if there was one;     *)
(* welcome_message_id is absent when none was pending or when that delete  *)
(* succeeded (answered ok, or 400 "message to delete not found"), and is   *)
(* kept as it was when the delete failed.                                  *)
C10_WelcomeClearedWhenDeleted ==
  [][AcceptedImageCmd =>
       /\ HasKey(messageMap', CmdChat)
       /\ Get(messageMap', CmdChat).image_url = Url(CmdUrl)
       /\ mapDirty'
       /\ IF PendingWelcome
            THEN /\ WelcomeDeleteIssued
                 /\ IF DeleteSucceeded(OfOps(NewCalls, {"deleteMessage"})[1].ans)
                      THEN ~Has(Get(messageMap', CmdChat), "welcome_message_id")
                      ELSE /\ Has(Get(messageMap', CmdChat), "welcome_message_id")
                           /\ Get(messageMap', CmdChat).welcome_message_id
                                = Get(messageMap, CmdChat).welcome_message_id
            ELSE ~Has(Get(messageMap', CmdChat), "welcome_message_id")]_vars

(* An image command with a verified URL has been processed for a chat     *)
(* that waited with welcome message 5: the delete of message 5 was         *)
(* answered ok and the record holds the URL and no welcome_message_id.     *)
C10_Witness ==
  /\ pc = "welcome" /\ Len(updates) = 1
  /\ HasKey(Loaded.map, String(ChatA))
  /\ Has(Get(Loaded.map, String(ChatA)), "welcome_message_id")
  /\ \E i \in 1..Len(calls) :
       /\ calls[i].op = "deleteMessage" /\ calls[i].message_id = 5
       /\ calls[i].ans = EditedMessage
  /\ Get(messageMap, String(ChatA)).image_url = Url(U_KYIV)
  /\ ~Has(Get(messageMap, String(ChatA)), "welcome_message_id")
  /\ mapDirty

(***************************************************************************)
(* The point where main decides whether to save: every chat of allIds has  *)
(* been reconciled and the file has not been written yet.                  *)
(***************************************************************************)
AtSave == pc = "loop" /\ idx > Len(allIds)

(* C11: at the point where the run decides whether to save, the dirty     *)
(* flag is true whenever the in-memory map differs from the map as it was  *)
(* right after load, a record created lazily by a command included.        *)
C11_DirtyWheneverMapChanged ==
  AtSave => (messageMap # Loaded.map => mapDirty)

(***************************************************************************)
(* Runs over files as they can lie on disk: canonical, flat and deleted    *)
(* items, an item of an unknown shape, an item with the empty key, keys    *)
(* out of order, fields load drops (an empty image_url, an empty           *)
(* monitor_host), monitor fields and message_thread_id.                    *)
(***************************************************************************)
MonitorFields ==
  {"monitor_host", "monitor_port", "monitor_interval_sec", "monitor_last_status",
   "monitor_last_change", "monitor_enabled"}

Monitored(rec) ==
  [monitor_host |-> "192.0.2.1", monitor_port |-> 80, monitor_interval_sec |-> 60,
   monitor_last_status |-> "up", monitor_last_change |-> 1700000000,
   monitor_enabled |-> TRUE, message_thread_id |-> 4] @@ rec

LoadRecords ==
  {EmptyObj,
   Monitored([image_url |-> Url(U_KYIV), message_id |-> 10]),
   Monitored([image_url |-> Url(U_KYIV)]),
   Monitored([welcome_message_id |-> 5]),
   [image_url |-> Url(""), caption |-> "Custom caption", monitor_host |-> "",
    monitor_port |-> 80],
   [image_url |-> ImageList(2), message_id |-> 10, monitor_enabled |-> FALSE]}

Flat(chat, rec) == Put(rec, "chat_id", String(chat))

Deleted(item) ==
  IF Has(item, "chat_id") THEN Put(item, "deleted", TRUE)
  ELSE LET k == CHOOSE f \in DOMAIN item : TRUE IN (k :> Put(item[k], "deleted", TRUE))

UnknownShape == [foo |-> 1, bar |-> 2]

LoadItemsA ==
  {Item(ChatA, r) : r \in LoadRecords}
  \cup {Flat(ChatA, r) : r \in LoadRecords}
  \cup {Deleted(Item(ChatA, [message_id |-> 10])), Deleted(Flat(ChatA, [message_id |-> 10]))}

LoadFiles ==
  {<<>>, <<UnknownShape>>}
  \cup {<<a>> : a \in LoadItemsA}
  \cup {<<Item(ChatB, Monitored([welcome_message_id |-> 6])), a>> : a \in LoadItemsA}
  \cup {<<("" :> [caption |-> "Custom caption"]), a>> : a \in LoadItemsA}
  \cup {<<a, Item(ChatB, Monitored([welcome_message_id |-> 6]))>> : a \in LoadItemsA}

InitLoad == \E f \in LoadFiles : StartFrom(f)

NextLoad ==
  \/ FetchNothing
  \/ StartLoop
  \/ ReconcileChat
  \/ SaveMap
  \/ AckUpdates
  \/ Exit
  \/ NextRun

SpecLoad == InitLoad /\ [][NextLoad]_vars

(* One iteration of the main loop, as the loop counter sees it.           *)
LoopAdvance == pc = "loop" /\ idx <= Len(allIds) /\ idx' = idx + 1

(* The process is one thread of awaited calls, each of which returns or   *)
(* throws: an iteration of the loop that has started comes to its end.     *)
SpecLoadFair == SpecLoad /\ WF_idx(LoopAdvance)

(* The step from one run to the next.                                     *)
Restart == pc = "done" /\ pc' = "getUpdates"

(* C12: in one run the file is written at most once, only after every     *)
(* chat of the loop has its outcome, and exactly when the dirty flag is    *)
(* true at that point.  The flag starts as load's wasNormalized, and a     *)
(* step outside the commands raises it only when it changes the map, so a  *)
(* run that neither normalizes nor mutates never writes.                   *)
C12_WrittenOnceWhenDirty ==
  /\ [](pc = "getUpdates" => (writes = 0 /\ mapDirty = Loaded.wasNormalized))
  /\ [][~Restart =>
          /\ (writes' # writes \/ file' # file) =>
               /\ AtSave /\ Len(results) = Len(allIds)
               /\ mapDirty /\ writes = 0 /\ writes' = 1
          /\ (AtSave /\ pc' = "ack") => (writes' = 1 <=> mapDirty)
          /\ (~mapDirty /\ mapDirty') => (messageMap' # messageMap \/ pc = "commands")
          /\ (mapDirty => mapDirty')]_vars

(* A run that loaded a flat item and reconciled its chat without touching *)
(* the map (no image) has written the file once, in canonical form.        *)
C12_Witness ==
  /\ run = 1 /\ pc = "ack" /\ writes = 1
  /\ Len(results) = 1 /\ Has(results[1], "reason") /\ results[1].reason = "no-image"
  /\ file = <<Item(ChatA, [welcome_message_id |-> 5, message_thread_id |-> 4] @@
                          [f \in MonitorFields |-> Monitored(EmptyObj)[f]])>>

(* An outcome that is a failure for the exit status.                      *)
TrueFailure(r) == r.ok = FALSE /\ (Has(r, "reason") => r.reason # "invalid-config")

Acked ==
  lastUpdateId # <<>> =>
    /\ calls # <<>>
    /\ calls[Len(calls)] = [op |-> "getUpdates", offset |-> lastUpdateId[1] + 1]

(* C13: the run ends with a non-zero exit status if and only if some      *)
(* outcome is a failure other than 'invalid-config', and the exit status   *)
(* is set only at the end: every chat has its outcome, a dirty map has     *)
(* been handed to the save step and the batch has been acknowledged.       *)
C13_ExitStatusReportsFailures ==
  /\ exitCode # -1 <=> pc = "done"
  /\ pc = "done" =>
       /\ exitCode \in {0, 10}
       /\ exitCode # 0 <=> \E i \in 1..Len(results) : TrueFailure(results[i])
       /\ Len(results) = Len(allIds)
       /\ mapDirty <=> writes = 1
       /\ Acked

(* A run that registered a chat, skipped the record under the empty key   *)
(* as 'invalid-config', failed on the other chat, saved and acknowledged,  *)
(* and ended with status 10.                                               *)
C13_Witness ==
  /\ pc = "done" /\ exitCode = 10
  /\ \E i \in 1..Len(results) :
       ~results[i].ok /\ Has(results[i], "reason") /\ results[i].reason = "invalid-config"
  /\ \E i \in 1..Len(results) : TrueFailure(results[i])
  /\ lastUpdateId # <<>> /\ writes = 1

(* A run whose only outcome that is not ok is 'invalid-config' ends with  *)
(* status 0.                                                               *)
C13_WitnessInvalidConfigOnly ==
  /\ pc = "done" /\ exitCode = 0
  /\ \E i \in 1..Len(results) : ~results[i].ok

InLoopOrAfter == pc \in {"loop", "ack", "summary", "done"}

(* C14: the loop runs over the keys the map has when it starts, one chat  *)
(* per iteration in that order, pushes exactly one outcome for each,       *)
(* whatever the outcomes before it, and comes to its end.                  *)
C14_EveryChatOneOutcomeInOrder ==
  /\ [](InLoopOrAfter =>
          /\ Len(results) = (IF pc = "loop" THEN idx - 1 ELSE Len(allIds))
          /\ Len(results) <= Len(allIds)
          /\ \A i \in 1..Len(results) : results[i].chat = allIds[i])
  /\ [][(pc # "loop" /\ pc' = "loop") =>
          (allIds' = KeysOf(messageMap) /\ results' = <<>> /\ idx' = 1)]_vars
  /\ [][(pc = "loop" /\ pc' = "loop") =>
          /\ allIds' = allIds /\ idx' = idx + 1
          /\ SubSeq(results', 1, Len(results)) = results
          /\ Len(results') = Len(results) + 1]_vars
  /\ (pc = "loop" ~> AtSave)

(* A loop over two chats whose first chat failed (its send threw) and     *)
(* whose second chat has its outcome.                                      *)
C14_Witness ==
  /\ AtSave /\ Len(allIds) = 2
  /\ allIds = <<String(ChatA), String(ChatB)>>
  /\ ~results[1].ok /\ Has(results[1], "err")
  /\ results[2].ok /\ results[2].chat = String(ChatB)

(* An answer 400 whose description contains 'TOPIC_CLOSED'.               *)
TopicClosedAnswer(ans) ==
  ~Threw(ans) /\ ~ans.ok /\ ans.error_code = 400 /\ ans.description = D_TOPIC_CLOSED

SendOrEdit == {"sendPhoto", "sendMediaGroup", "editMessageMedia"}

(* C15: whenever a send or edit call of a loop step (single send, album   *)
(* send, single edit, album-item edit) is answered 400 'TOPIC_CLOSED', the *)
(* outcome of the chat is ok with reason 'topic-closed', the record is     *)
(* kept and the chat does not count as a failure.                          *)
C15_TopicClosedIsSkipped ==
  StepDone =>
    ((\E i \in 1..Len(StepCalls) :
        StepCalls[i].op \in SendOrEdit /\ TopicClosedAnswer(StepCalls[i].ans))
       => /\ StepResult.ok
          /\ Has(StepResult, "reason") /\ StepResult.reason = "topic-closed"
          /\ HasKey(messageMap, StepChat)
          /\ ~TrueFailure(StepResult))

(* A send or edit call of the last loop step that threw, or that was      *)
(* answered with a failure outside the recognised patterns: 403 'not a     *)
(* member', 400 'TOPIC_CLOSED', 400 'message is not modified', and any     *)
(* other 400 on the edit of a single message.                              *)
Unrecognised(c) ==
  /\ c.op \in SendOrEdit
  /\ \/ Threw(c.ans)
     \/ /\ ~c.ans.ok
        /\ ~NotMemberAnswer(c.ans)
        /\ ~TopicClosedAnswer(c.ans)
        /\ ~(c.ans.error_code = 400 /\ c.ans.description = D_NOT_MODIFIED)
        /\ ~(c.ans.error_code = 400 /\ c.op = "editMessageMedia"
               /\ ~IsAlbumConfig(StepEffective))

(* C16: whenever a send or edit call of a loop step throws or is answered *)
(* with a failure outside the recognised patterns, the outcome of the chat *)
(* is a failure, and a run with such an outcome ends with a non-zero exit  *)
(* status; single and album sends and edits alike.                         *)
C16_UnrecognisedFailureFailsTheChat ==
  /\ StepDone =>
       ((\E i \in 1..Len(StepCalls) : Unrecognised(StepCalls[i]))
          => (StepResult.ok = FALSE /\ TrueFailure(StepResult)))
  /\ pc = "done" =>
       ((\E j \in 1..Len(results) : TrueFailure(results[j])) => exitCode # 0)

(* Two maps with the same keys and the same record under each key.        *)
SameMap(a, b) == {a[i] : i \in 1..Len(a)} = {b[i] : i \in 1..Len(b)}

ItemKey(item) == CHOOSE k \in DOMAIN item : TRUE

KeysInOrder(arr) ==
  \A i \in 1..Len(arr) : \A j \in 1..Len(arr) :
    i < j => Rank(ItemKey(arr[i])) < Rank(ItemKey(arr[j]))

(* C17: persistence is a fixed point.  For the map of every state of a    *)
(* run (as loaded from a canonical, flat or unordered file, or as changed  *)
(* by the loop), saving it and loading what was saved gives the same keys  *)
(* and records with no normalization reported, and saving that again gives *)
(* the same file content, keys in sorted order.                            *)
C17_SaveLoadIsAFixedPoint ==
  LET saved == saveMessageMapToFile(messageMap)
      again == loadMessageMapFromFile(saved)
  IN /\ SameMap(again.map, messageMap)
     /\ again.wasNormalized = FALSE
     /\ saveMessageMapToFile(again.map) = saved
     /\ KeysInOrder(saved)
     /\ \A i \in 1..Len(saved) :
          /\ Cardinality(DOMAIN saved[i]) = 1
          /\ saved[i][ItemKey(saved[i])] = Get(messageMap, ItemKey(saved[i]))

(* A map whose keys are not in sorted order, changed by the loop, has     *)
(* been saved; the file holds the two records in sorted order.             *)
C17_Witness ==
  /\ pc = "ack" /\ writes = 1 /\ run = 1
  /\ KeysOf(messageMap) = <<String(ChatB), String(ChatA)>>
  /\ file = saveMessageMapToFile(messageMap)
  /\ KeysOf(loadMessageMapFromFile(file).map) = <<String(ChatA), String(ChatB)>>
  /\ Has(Get(messageMap, String(ChatA)), "message_id")
  /\ Get(messageMap, String(ChatA)).message_id >= 100

(* The fields the core does not own: the monitor fields and               *)
(* message_thread_id.                                                      *)
Frozen == MonitorFields \cup {"message_thread_id"}

Part(rec, fields) == [f \in fields \cap DOMAIN rec |-> rec[f]]

(* The record an item of the file holds for its chat, and the chat.       *)
RawKey(item) == IF Has(item, "chat_id") THEN item.chat_id ELSE ItemKey(item)

RawRecord(item) == IF Has(item, "chat_id") THEN item ELSE item[ItemKey(item)]

IsLoadable(item) ==
  /\ Has(item, "chat_id") \/ Cardinality(DOMAIN item) = 1
  /\ ~IsDeleted(RawRecord(item))

(* The map keeps the fields it does not own: at the end of the loop every *)
(* record has them as the loaded record had them (a chat that was not      *)
(* loaded has none).                                                       *)
FrozenKeptByRun ==
  AtSave =>
    \A i \in 1..Len(messageMap) :
      Part(messageMap[i].v, Frozen)
        = (IF HasKey(Loaded.map, messageMap[i].k)
             THEN Part(Get(Loaded.map, messageMap[i].k), Frozen) ELSE EmptyObj)

(* Load followed by save writes, for every item it loads, the monitor     *)
(* fields the item had in the file.                                        *)
MonitorKeptByLoadSave ==
  pc = "getUpdates" =>
    \A i \in 1..Len(file) :
      IsLoadable(file[i]) =>
        \E j \in 1..Len(saveMessageMapToFile(Loaded.map)) :
          LET out == saveMessageMapToFile(Loaded.map)[j]
          IN /\ ItemKey(out) = RawKey(file[i])
             /\ Part(out[ItemKey(out)], MonitorFields)
                  = Part(RawRecord(file[i]), MonitorFields)

(* C18: for every chat whose record is in the map at the end of a run the *)
(* monitor fields and message_thread_id have the values they had at load,  *)
(* and load followed by save keeps the monitor fields of the file.         *)
C18_MonitorFieldsKept == FrozenKeptByRun /\ MonitorKeptByLoadSave

(* C19: for a chat whose record has no image_url the loop step issues no  *)
(* call at all (no send, edit, delete or pin), records an ok outcome with  *)
(* reason 'no-image', keeps the record and changes none of its fields and  *)
(* no other record; a chat registered earlier in the same run included.    *)
C19_DormantChatIsLeftAlone ==
  [][(pc = "loop" /\ idx <= Len(allIds) /\ allIds[idx] # ""
        /\ HasKey(messageMap, allIds[idx])
        /\ ~Configured(Get(messageMap, allIds[idx])))
       => /\ calls' = calls
          /\ messageMap' = messageMap
          /\ mapDirty' = mapDirty
          /\ results' = Append(results, [ok |-> TRUE, chat |-> allIds[idx],
                                         reason |-> "no-image"])]_vars

(* A chat registered by the batch of this run, with no image command in   *)
(* the batch, got its welcome message and then the outcome 'no-image';     *)
(* its record holds the welcome message id only.                           *)
C19_Witness ==
  /\ StepDone /\ StepChat = String(ChatA)
  /\ file = <<>>
  /\ newlyRegistered = <<String(ChatA)>>
  /\ StepCalls = <<>>
  /\ StepResult = [ok |-> TRUE, chat |-> String(ChatA), reason |-> "no-image"]
  /\ RecordIn(messageMap, String(ChatA)) = <<[welcome_message_id |-> 100]>>

(***************************************************************************)
(* The schedule messages of a chat that are live at the gateway, as the    *)
(* call log tells: the ids stored at load and the ids of the sends that    *)
(* succeeded, less the ids whose delete succeeded and the ids the gateway  *)
(* reported as not found.                                                  *)
(***************************************************************************)
StoredIds(rec) ==
  (IF Has(rec, "message_id") THEN {rec.message_id} ELSE {})
  \cup (IF Has(rec, "message_ids")
          THEN {rec.message_ids[i] : i \in 1..Len(rec.message_ids)} ELSE {})

IdsAtLoad(chat) ==
  IF HasKey(Loaded.map, chat) THEN StoredIds(Get(Loaded.map, chat)) ELSE {}

SentIds(chat) ==
  UNION {IF calls[i].op = "sendPhoto" THEN {calls[i].ans.result.message_id}
         ELSE {calls[i].ans.result[j].message_id : j \in 1..Len(calls[i].ans.result)} :
           i \in {n \in 1..Len(calls) :
                    /\ calls[n].op \in {"sendPhoto", "sendMediaGroup"}
                    /\ calls[n].chat_id = chat
                    /\ Succeeded(calls[n].ans)}}

GoneAnswer(c) ==
  \/ c.op = "deleteMessage" /\ DeleteSucceeded(c.ans)
  \/ /\ c.op = "editMessageMedia" /\ ~Threw(c.ans) /\ ~c.ans.ok
     /\ c.ans.error_code = 400 /\ c.ans.description = D_EDIT_NOT_FOUND

RemovedIds(chat) ==
  {calls[i].message_id :
     i \in {n \in 1..Len(calls) :
              /\ calls[n].op \in {"deleteMessage", "editMessageMedia"}
              /\ calls[n].chat_id = chat
              /\ GoneAnswer(calls[n])}}

LiveIds(chat) == (IdsAtLoad(chat) \cup SentIds(chat)) \ RemovedIds(chat)

(* C20: at the end of the loop, for every chat that still has a record,   *)
(* every schedule message that is live at the gateway is one the record    *)
(* refers to, whatever the gateway answered to the deletes, sends and      *)
(* edits: no chat is left with a second live representation.               *)
C20_OneLiveRepresentation ==
  AtSave =>
    \A i \in 1..Len(messageMap) :
      LiveIds(messageMap[i].k) \subseteq StoredIds(messageMap[i].v)

(***************************************************************************)
(* The deletes of the migration cases of the step that has just run, and   *)
(* the ids they removed.                                                   *)
(***************************************************************************)
StepDeletes == OfOps(StepCalls, {"deleteMessage"})

StepDeletedIds ==
  {StepDeletes[i].message_id :
     i \in {n \in 1..Len(StepDeletes) : DeleteSucceeded(StepDeletes[n].ans)}}

(* C21: after a step that deleted the stored message(s) of a chat for a   *)
(* mode switch or an album count mismatch and whose outcome is ok (the     *)
(* send succeeded, or ended as the topic-closed skip), the record of the   *)
(* chat, when there is one, holds none of the ids that were deleted.       *)
C21_DeletedIdsAreForgotten ==
  (/\ StepDone /\ Configured(mapCfg) /\ StepSwitched
   /\ StepResult.ok /\ HasKey(messageMap, StepChat)) =>
    StoredIds(Get(messageMap, StepChat)) \cap StepDeletedIds = {}

(***************************************************************************)
(* The pin calls of the step that has just run.                            *)
(***************************************************************************)
StepPins == OfOps(StepCalls, {"pinChatMessage"})

NothingStored(cfg) == ~Has(cfg, "message_id") /\ ~Has(cfg, "message_ids")

(* C22: for a chat with a single image_url and no stored message id, a    *)
(* step whose send succeeds issues exactly one single-photo send and then  *)
(* one pin call for the returned id, and nothing else; the id is stored as *)
(* message_id and the map is dirty.  For a step whose album send           *)
(* succeeds, exactly one album send is issued, and the one pin call,       *)
(* issued after it, is for the first returned id.                          *)
C22_SendThenPin ==
  (StepDone /\ Configured(mapCfg) /\ Len(StepSends) >= 1
     /\ Succeeded(StepSends[Len(StepSends)].ans)) =>
    LET sent == StepSends[Len(StepSends)]
    IN IF IsAlbumConfig(StepEffective)
         THEN /\ Len(StepSends) = 1 /\ sent.op = "sendMediaGroup"
              /\ Len(StepPins) = 1
              /\ StepPins[1].message_id = sent.ans.result[1].message_id
              /\ StepCalls[Len(StepCalls)] = StepPins[1]
              /\ StepCalls[Len(StepCalls) - 1] = sent
         ELSE NothingStored(mapCfg) =>
                /\ Len(StepCalls) = 2
                /\ StepCalls[1] = sent /\ sent.op = "sendPhoto"
                /\ StepCalls[2] = [op |-> "pinChatMessage", chat_id |-> StepChat,
                                   message_id |-> sent.ans.result.message_id]
                /\ HasKey(messageMap, StepChat)
                /\ Has(Get(messageMap, StepChat), "message_id")
                /\ Get(messageMap, StepChat).message_id = sent.ans.result.message_id
                /\ mapDirty

(* A chat with one image and nothing stored has been sent message 100,     *)
(* and a chat with an album has been sent its group.                       *)
C22_Witness ==
  /\ StepDone /\ Configured(mapCfg) /\ NothingStored(mapCfg)
  /\ ~IsAlbumConfig(StepEffective)
  /\ Len(StepSends) = 1 /\ Succeeded(StepSends[1].ans)
  /\ Get(messageMap, StepChat).message_id = 100

C22_WitnessAlbum ==
  /\ StepDone /\ IsAlbumConfig(StepEffective)
  /\ Len(StepSends) = 1 /\ Succeeded(StepSends[1].ans)
  /\ Len(StepPins) = 1

(***************************************************************************)
(* The caption command the command step is about to process.               *)
(***************************************************************************)
IsCaptionCmd ==
  /\ HasMessage(updates[idx])
  /\ Has(MessageOf(updates[idx]), "chat")
  /\ CaptionMatch(CmdText).matched

CmdArg == TextOf(Trim(CaptionMatch(CmdText).raw))

(* C23: a caption command whose argument is empty after trimming sends    *)
(* one reply, the empty-caption error, and leaves the map exactly as it    *)
(* was (no record is created for a chat not seen before, no field of an    *)
(* existing record changes) and the dirty flag unchanged.                  *)
C23_EmptyCaptionChangesNothing ==
  [][(CmdStep /\ IsCaptionCmd /\ CmdArg = "") =>
       /\ Len(NewCalls) = 1
       /\ NewCalls[1].op = "sendMessage"
       /\ NewCalls[1].chat_id = CmdChat
       /\ NewCalls[1].text = T_CAPTION_EMPTY
       /\ mapDirty' = mapDirty
       /\ messageMap' = messageMap]_vars

(***************************************************************************)
(* The caption commands of the batch for a chat, by position in the batch. *)
(***************************************************************************)
IsCaptionUpdate(u, chat) ==
  /\ HasMessage(u)
  /\ Has(MessageOf(u), "chat")
  /\ String(MessageOf(u).chat.id) = chat
  /\ CaptionMatch(TextOfMessage(MessageOf(u))).matched

CaptionUpdates(chat) == {i \in 1..Len(updates) : IsCaptionUpdate(updates[i], chat)}

LastCaptionIsDefault(chat) ==
  /\ CaptionUpdates(chat) # {}
  /\ LET last == CHOOSE i \in CaptionUpdates(chat) : \A j \in CaptionUpdates(chat) : j <= i
     IN IsDefaultArg(TextOf(Trim(CaptionMatch(TextOfMessage(MessageOf(updates[last]))).raw)))

(* C24: when the last caption command of the batch for a chat was the     *)
(* reset to the default, the record of the chat has no caption field at    *)
(* the point where the map is saved, also when the chat has an image_url   *)
(* and was reconciled in the same run.                                     *)
C24_ResetLeavesNoCaption ==
  AtSave =>
    \A i \in 1..Len(messageMap) :
      LastCaptionIsDefault(messageMap[i].k) => ~Has(messageMap[i].v, "caption")

(***************************************************************************)
(* Recovery on the next run.                                               *)
(***************************************************************************)
IdFields(rec) == Part(rec, {"message_id", "message_ids"})

(* The step was one send and nothing else, and it failed.                  *)
StepSendFailed ==
  /\ StepDone /\ Configured(mapCfg)
  /\ ~StepResult.ok
  /\ Len(StepWork) = 1 /\ StepWork = StepSends

PrevSendFailed(chat) ==
  /\ Len(PrevWork(chat)) = 1
  /\ PrevWork(chat)[1].op \in {"sendPhoto", "sendMediaGroup"}
  /\ Len(PrevOutcomes(chat)) = 1 /\ ~PrevOutcomes(chat)[1].ok

SameSend(c, d) ==
  /\ c.op = d.op
  /\ IF c.op = "sendPhoto" THEN c.photo = d.photo /\ c.caption = d.caption
                           ELSE c.media = d.media

AllAnswersOk == \A i \in 1..Len(calls) : Has(calls[i], "ans") => Succeeded(calls[i].ans)

(* The record holds its ids in the representation of its effective mode.   *)
InMode(chat, rec) ==
  IF IsAlbumConfig(Effective(chat, rec))
    THEN /\ ~Has(rec, "message_id") /\ Has(rec, "message_ids")
         /\ Len(rec.message_ids) = Len(rec.image_url.list)
    ELSE Has(rec, "message_id") /\ rec.message_id # 0 /\ ~Has(rec, "message_ids")

(* C25: a step that is one send, nothing deleted before it, and ends as a *)
(* hard failure leaves the record with the message ids it had and the same *)
(* effective configuration; the next run, with no update in between,       *)
(* issues the same send for the chat, with no delete before it; and a run  *)
(* in which the gateway answered every call with success reaches its save  *)
(* point with every chat that has an image_url holding its id(s) in the    *)
(* representation of its effective mode.                                   *)
C25_RecoveryOnNextRun ==
  /\ StepSendFailed =>
       /\ HasKey(messageMap, StepChat)
       /\ IdFields(Get(messageMap, StepChat)) = IdFields(mapCfg)
       /\ Effective(StepChat, Get(messageMap, StepChat)) = StepEffective
  /\ (StepDone /\ run > 1 /\ PrevSendFailed(StepChat)) =>
       /\ StepWork # <<>>
       /\ SameSend(StepWork[1], PrevWork(StepChat)[1])
  /\ (AtSave /\ AllAnswersOk) =>
       \A i \in 1..Len(messageMap) :
         (messageMap[i].k # "" /\ Configured(messageMap[i].v))
           => InMode(messageMap[i].k, messageMap[i].v)

(* The send of the first run failed, the second run sent again and stored *)
(* the id.                                                                 *)
C25_Witness ==
  /\ AtSave /\ run > 1 /\ AllAnswersOk
  /\ PrevSendFailed(String(ChatA))
  /\ HasKey(messageMap, String(ChatA))
  /\ InMode(String(ChatA), Get(messageMap, String(ChatA)))
  /\ \E i \in 1..Len(calls) : calls[i].op \in {"sendPhoto", "sendMediaGroup"}

(***************************************************************************)
(* The replace path of the edit of a single message.                       *)
(***************************************************************************)
StepEditsSingle ==
  /\ StepDone /\ Configured(mapCfg) /\ ~IsAlbumConfig(StepEffective)
  /\ KnownSingle(mapCfg) /\ ~KnownAlbum(mapCfg)

StepReplaced ==
  /\ StepEditsSingle
  /\ StepWork # <<>>
  /\ StepWork[1].op = "editMessageMedia"
  /\ ReplaceAnswered(StepWork[1].ans)

(* C26: when the edit of a stored single message is answered with an      *)
(* error 400 that is neither "message is not modified" nor TOPIC_CLOSED,   *)
(* the step issues the edit, one delete of the old id and one single-photo *)
(* send, whatever the delete answered.  A send that succeeds gives an      *)
(* outcome flagged replaced, the new id stored as message_id and a dirty   *)
(* map; a send answered "not a member" removes the record; any other       *)
(* answer to the send leaves the stored message_id as it was.              *)
C26_ReplaceAfterFailedEdit ==
  StepReplaced =>
    /\ Len(StepWork) = 3
    /\ StepWork[2].op = "deleteMessage"
    /\ StepWork[2].message_id = mapCfg.message_id
    /\ StepWork[3].op = "sendPhoto"
    /\ LET sent == StepWork[3].ans
       IN IF Succeeded(sent)
            THEN /\ StepResult.ok
                 /\ Has(StepResult, "replaced") /\ StepResult.replaced
                 /\ HasKey(messageMap, StepChat)
                 /\ Has(Get(messageMap, StepChat), "message_id")
                 /\ Get(messageMap, StepChat).message_id = sent.result.message_id
                 /\ mapDirty
          ELSE IF NotMemberAnswer(sent)
            THEN ~HasKey(messageMap, StepChat)
          ELSE /\ HasKey(messageMap, StepChat)
               /\ Has(Get(messageMap, StepChat), "message_id")
               /\ Get(messageMap, StepChat).message_id = mapCfg.message_id

(* Message 10 was not found, its delete threw, and the replacement 100     *)
(* has been stored.                                                        *)
C26_Witness ==
  /\ StepReplaced
  /\ mapCfg.message_id = 10
  /\ Threw(StepWork[2].ans)
  /\ Succeeded(StepWork[3].ans)
  /\ Get(messageMap, StepChat).message_id = 100

(***************************************************************************)
(* The edit of an album in place.                                          *)
(***************************************************************************)
StepEditsAlbum ==
  /\ StepDone /\ Configured(mapCfg) /\ IsAlbumConfig(StepEffective)
  /\ KnownAlbum(mapCfg) /\ ~KnownSingle(mapCfg)
  /\ Len(mapCfg.message_ids) = Len(StepEffective.image_url.list)

AlbumEditCall(chat, effective, ids, i) ==
  [op |-> "editMessageMedia", chat_id |-> chat, message_id |-> ids[i],
   media |-> effective.image_url.list[i] \o "?cb=" \o CacheBust,
   caption |-> IF i = 1 THEN withTimestamp(effective.caption) ELSE ""]

(* C27: an album edit issues one edit call per stored message id, in      *)
(* stored order, each with the image of the same position and with the     *)
(* caption on the first alone, whatever each edit was answered; then one   *)
(* pin call for the first stored id, and no other call.  The outcome is    *)
(* ok and message_ids is left as it was.                                   *)
C27_AlbumEditedByPosition ==
  StepEditsAlbum =>
    LET ids == mapCfg.message_ids
        n == Len(ids)
    IN /\ Len(StepCalls) = n + 1
       /\ \A i \in 1..n :
            Part(StepCalls[i], {"op", "chat_id", "message_id", "media", "caption"})
              = AlbumEditCall(StepChat, StepEffective, ids, i)
       /\ StepCalls[n + 1] = [op |-> "pinChatMessage", chat_id |-> StepChat,
                              message_id |-> ids[1]]
       /\ StepResult.ok /\ StepResult.chat = StepChat
       /\ HasKey(messageMap, StepChat)
       /\ Has(Get(messageMap, StepChat), "message_ids")
       /\ Get(messageMap, StepChat).message_ids = ids

(* An album of two has been edited: the first edit threw, the second was   *)
(* answered with a gateway failure, and message 10 was pinned.             *)
C27_Witness ==
  /\ StepEditsAlbum
  /\ mapCfg.message_ids = IdList(10, 2)
  /\ Threw(StepCalls[1].ans)
  /\ ~Threw(StepCalls[2].ans) /\ ~StepCalls[2].ans.ok
  /\ ~IsNotModified(StepCalls[2].ans)
  /\ StepCalls[3].op = "pinChatMessage" /\ StepCalls[3].message_id = 10

(***************************************************************************)
(* The edits of the step that has just run.                                *)
(***************************************************************************)
StepEdits == OfOps(StepCalls, {"editMessageMedia"})

SizeMismatch(r) == Has(r, "reason") /\ r.reason = "size-mismatch"

(* C28: no outcome of a run is the size-mismatch failure of the album     *)
(* edit; a step for an album whose number of stored ids differs from the   *)
(* number of images issues no edit at all, and a step for an album that    *)
(* issues edits issues one per stored id and per image.                    *)
C28_NoPartialAlbumEdit ==
  /\ \A i \in 1..Len(results) : ~SizeMismatch(results[i])
  /\ (StepDone /\ Configured(mapCfg) /\ IsAlbumConfig(StepEffective)) =>
       /\ AlbumSizeDiffers(mapCfg, StepEffective) => StepEdits = <<>>
       /\ StepEdits # <<>> =>
            /\ KnownAlbum(mapCfg)
            /\ Len(StepEdits) = Len(mapCfg.message_ids)
            /\ Len(StepEdits) = Len(StepEffective.image_url.list)

(* An album of three with two stored ids has been resent: two deletes,     *)
(* one album send, no edit.                                                *)
C28_Witness ==
  /\ StepDone /\ Configured(mapCfg)
  /\ AlbumSizeDiffers(mapCfg, StepEffective)
  /\ Len(mapCfg.message_ids) = 2 /\ Len(StepEffective.image_url.list) = 3
  /\ Len(StepDeletes) = 2 /\ Len(StepSends) = 1 /\ StepEdits = <<>>
  /\ StepResult.ok

(***************************************************************************)
(* The pins the step issued for the message id the record held.            *)
(***************************************************************************)
StepPinsOfStored ==
  SelectSeq(StepPins, LAMBDA c : c.message_id = mapCfg.message_id)

(* C29: the edit of a stored single message is followed by a pin call for *)
(* the stored id exactly when the edit was answered with success or with   *)
(* 400 "message is not modified": the pin is then the next and last call   *)
(* of the step and the outcome is ok, flagged not modified in the second   *)
(* case alone.  After any other answer (topic closed, removal, another     *)
(* failure, a network error) the step issues no pin for the stored id.     *)
C29_PinAfterAcceptedEdit ==
  (StepEditsSingle /\ StepWork # <<>> /\ StepWork[1].op = "editMessageMedia") =>
    IF EditAccepted(StepWork[1])
      THEN /\ Len(StepCalls) = 2
           /\ StepCalls[1] = StepWork[1]
           /\ StepCalls[2] = [op |-> "pinChatMessage", chat_id |-> StepChat,
                              message_id |-> mapCfg.message_id]
           /\ StepResult.ok
           /\ Has(StepResult, "not_modified") <=> ~StepWork[1].ans.ok
      ELSE StepPinsOfStored = <<>>

(* The edit of message 10 was answered "message is not modified" and the   *)
(* message has been pinned again.                                          *)
C29_Witness ==
  /\ StepEditsSingle /\ StepWork # <<>>
  /\ StepWork[1].op = "editMessageMedia"
  /\ ~Threw(StepWork[1].ans) /\ ~StepWork[1].ans.ok
  /\ EditAccepted(StepWork[1])
  /\ Len(StepPinsOfStored) = 1
  /\ Has(StepResult, "not_modified")

C29_WitnessNoPin ==
  /\ StepEditsSingle /\ StepWork # <<>>
  /\ StepWork[1].op = "editMessageMedia"
  /\ ~EditAccepted(StepWork[1])
  /\ Len(StepPins) = 1 /\ StepPinsOfStored = <<>>

(***************************************************************************)
(* Runs whose batch holds up to MaxRejoins membership updates of two       *)
(* chats: a chat can join, leave and join again in one batch.              *)
(***************************************************************************)
MaxRejoins == 3

RejoinUpdates ==
  {Membership(ChatA, "channel", "administrator"),
   Membership(ChatA, "channel", "left"),
   Membership(ChatB, "supergroup", "member")}

RejoinBatches == UNION {{Numbered(us) : us \in Tuples(RejoinUpdates, n)} : n \in 0..MaxRejoins}

FetchRejoins ==
  /\ pc = "getUpdates"
  /\ \E us \in RejoinBatches :
       /\ updates' = us
       /\ lastUpdateId' = IF us = <<>> THEN <<>> ELSE <<us[Len(us)].update_id>>
       /\ pc' = IF us = <<>> THEN "welcome" ELSE "register"
  /\ calls' = Append(calls, [op |-> "getUpdates"])
  /\ idx' = 1
  /\ UNCHANGED <<mon, file, messageMap, mapDirty, newlyRegistered, allIds, results, nextId,
                 writes, exitCode, run, mapCfg, mark, prev>>

NextRejoin ==
  \/ FetchRejoins
  \/ RegisterFromUpdates
  \/ ProcessCommand
  \/ Welcome
  \/ StartLoop
  \/ ReconcileChat
  \/ SaveMap
  \/ AckUpdates
  \/ Exit

SpecRejoin == InitReg /\ [][NextRejoin]_vars

(***************************************************************************)
(* The welcome messages of the run.                                        *)
(***************************************************************************)
WelcomeSends == SelectSeq(calls, LAMBDA c : c.op = "sendMessage" /\ c.text = T_WELCOME)

InWelcome == pc = "welcome"

(* Every welcome send went to a chat id of newlyRegistered that had no      *)
(* record when the run loaded the file.                                    *)
WelcomedAreNew ==
  \A i \in 1..Len(WelcomeSends) :
    /\ \E n \in 1..Len(newlyRegistered) : newlyRegistered[n] = WelcomeSends[i].chat_id
    /\ ~HasKey(Loaded.map, WelcomeSends[i].chat_id)

WelcomedOnce ==
  \A i, j \in 1..Len(WelcomeSends) :
    WelcomeSends[i].chat_id = WelcomeSends[j].chat_id => i = j

(* The welcome send that has just succeeded is stored.                     *)
WelcomeStored ==
  (idx > 1 /\ WelcomeSends # <<>> /\ Succeeded(WelcomeSends[Len(WelcomeSends)].ans)) =>
    LET sent == WelcomeSends[Len(WelcomeSends)]
    IN /\ HasKey(messageMap, sent.chat_id)
       /\ Has(Get(messageMap, sent.chat_id), "welcome_message_id")
       /\ Get(messageMap, sent.chat_id).welcome_message_id = sent.ans.result.message_id
       /\ mapDirty

(* C30: in one run a welcome message is sent only to chat ids the         *)
(* registration returned as newly registered, a chat whose record existed  *)
(* before the batch gets none, no chat id gets more than one, and a        *)
(* welcome send that succeeded has its message id stored as the chat's     *)
(* welcome_message_id with the map dirty.                                  *)
C30_WelcomeOncePerNewChat ==
  InWelcome => (WelcomedAreNew /\ WelcomedOnce /\ WelcomeStored)

(***************************************************************************)
(* The phases of a run, and what the commands of the batch left for the    *)
(* loop.                                                                   *)
(***************************************************************************)
PhaseNo(p) ==
  CASE p = "getUpdates" -> 1
    [] p = "register"   -> 2
    [] p = "commands"   -> 3
    [] p = "welcome"    -> 4
    [] p = "loop"       -> 5
    [] p = "ack"        -> 6
    [] p = "summary"    -> 7
    [] p = "done"       -> 8

PhaseOps(p) ==
  CASE p = "getUpdates" -> {"getUpdates"}
    [] p = "commands"   -> {"fetch", "sendMessage", "deleteMessage"}
    [] p = "welcome"    -> {"sendMessage"}
    [] p = "loop"       -> {"sendPhoto", "sendMediaGroup", "editMessageMedia",
                            "deleteMessage", "pinChatMessage"}
    [] p = "ack"        -> {"getUpdates"}
    [] OTHER            -> {}

LastOf(S) == CHOOSE i \in S : \A j \in S : j <= i

LastCaptionArg(chat) ==
  TextOf(Trim(CaptionMatch(TextOfMessage(MessageOf(updates[LastOf(CaptionUpdates(chat))]))).raw))

(* The confirmations of an accepted image command in the call log, and the *)
(* URL of the last accepted one: the URL of the fetch that preceded it.    *)
ImageSavedReplies(chat) ==
  {i \in 1..Len(calls) : /\ calls[i].op = "sendMessage"
                         /\ calls[i].chat_id = chat
                         /\ calls[i].text = T_IMAGE_SAVED}

LastAcceptedUrl(chat) ==
  calls[LastOf({k \in 1..LastOf(ImageSavedReplies(chat)) : calls[k].op = "fetch"})].url

StepPosts == OfOps(StepCalls, {"sendPhoto", "editMessageMedia"})

C31_SameRunEffect ==
  StepDone =>
    /\ (CaptionUpdates(StepChat) # {} /\ ~IsDefaultArg(LastCaptionArg(StepChat))
          /\ LastCaptionArg(StepChat) # "") =>
         /\ StepEffective.caption = LastCaptionArg(StepChat)
         /\ \A i \in 1..Len(StepPosts) :
              Has(StepPosts[i], "photo") =>
                StepPosts[i].caption = withTimestamp(LastCaptionArg(StepChat))
    /\ ImageSavedReplies(StepChat) # {} =>
         /\ Has(StepEffective, "image_url")
         /\ StepEffective.image_url = Url(LastAcceptedUrl(StepChat))
         /\ \A i \in 1..Len(StepPosts) :
              Has(StepPosts[i], "photo") =>
                StepPosts[i].photo = cacheBustedUrl(Url(LastAcceptedUrl(StepChat)))

C31_PhaseStep ==
  ~Restart =>
    /\ PhaseNo(pc) <= PhaseNo(pc')
    /\ \A i \in 1..Len(NewCalls) : NewCalls[i].op \in PhaseOps(pc)
    /\ (pc = "welcome" /\ NewCalls # <<>>) =>
         /\ Len(NewCalls) = 1
         /\ NewCalls[1].text = T_WELCOME
         /\ NewCalls[1].chat_id = newlyRegistered[idx]
    /\ (pc = "commands" /\ pc' = "commands") => idx' = idx + 1
    /\ (pc = "commands" /\ pc' # "commands") => idx = Len(updates)
    /\ (pc = "loop" /\ pc' = "loop") => (idx' = idx + 1 /\ Len(results') = idx)
    /\ (pc = "loop" /\ pc' # "loop") => (AtSave /\ pc' = "ack")
    /\ (pc # "register" /\ newlyRegistered' # newlyRegistered) => pc = "done"
    /\ (file' # file) => AtSave
    /\ (pc = "ack" /\ NewCalls # <<>>) => Has(NewCalls[1], "offset")

(* C31: a run goes through its phases in one order: the membership updates *)
(* are applied in one step, then the commands one by one in arrival order, *)
(* then the welcome sends, then the reconciliation of every chat, then the *)
(* save, then the acknowledgement; each phase issues only its own calls.   *)
(* So a caption or an image URL accepted from a command of the batch is    *)
(* the one the reconciliation of that chat uses in the same run.           *)
C31_PhasesInOrder == []C31_SameRunEffect /\ [][C31_PhaseStep]_vars

(* A chat without an image in the file was sent the photo a command of the *)
(* same batch configured, under the caption another command of the batch   *)
(* set.                                                                    *)
C31_Witness ==
  /\ StepDone /\ StepChat = String(ChatA)
  /\ ~(HasKey(Loaded.map, String(ChatA)) /\ Has(Get(Loaded.map, String(ChatA)), "image_url"))
  /\ CaptionUpdates(String(ChatA)) # {} /\ LastCaptionArg(String(ChatA)) = "Hello"
  /\ ImageSavedReplies(String(ChatA)) # {}
  /\ Len(StepPosts) = 1
  /\ StepPosts[1].op = "sendPhoto"
  /\ StepPosts[1].photo = cacheBustedUrl(Url(U_ODESA))
  /\ StepPosts[1].caption = withTimestamp("Hello")

(***************************************************************************)
(* The acknowledgement of the batch.                                       *)
(***************************************************************************)
AckCalls == SelectSeq(calls, LAMBDA c : c.op = "getUpdates" /\ Has(c, "offset"))

AfterAck == pc \in {"summary", "done"}

(* C32: a run acknowledges its batch exactly when it fetched at least one  *)
(* update, by one getUpdates call whose offset is the id of the last       *)
(* update fetched plus one, issued after every chat of the loop has its    *)
(* outcome and after every other call of the run; a run that fetched       *)
(* nothing issues no such call, and no run issues it earlier.              *)
C32_AckIffBatch ==
  /\ ~AfterAck => AckCalls = <<>>
  /\ AfterAck =>
       /\ Len(AckCalls) = (IF updates = <<>> THEN 0 ELSE 1)
       /\ updates # <<>> =>
            /\ AckCalls[1].offset = updates[Len(updates)].update_id + 1
            /\ calls[Len(calls)] = AckCalls[1]
            /\ Len(results) = Len(allIds)

(* A run that fetched two updates and reconciled a chat has acknowledged   *)
(* them with the second one's id plus one.                                 *)
C32_Witness ==
  /\ pc = "summary"
  /\ Len(updates) = 2
  /\ Len(allIds) >= 1 /\ Len(results) = Len(allIds)
  /\ Len(OfOps(calls, WorkOps)) >= 1
  /\ AckCalls = <<[op |-> "getUpdates", offset |-> updates[2].update_id + 1]>>

(* A run that fetched nothing reached its summary without acknowledging.   *)
C32_WitnessNone ==
  /\ pc = "summary"
  /\ updates = <<>>
  /\ Len(results) >= 1
  /\ AckCalls = <<>>

(***************************************************************************)
(* The send and edit calls of the whole run, by chat and by message id.    *)
(***************************************************************************)
SendsTo(chat) ==
  SelectSeq(calls, LAMBDA c : c.op \in {"sendPhoto", "sendMediaGroup"} /\ c.chat_id = chat)

EditsOf(chat, id) ==
  SelectSeq(calls, LAMBDA c : /\ c.op = "editMessageMedia"
                              /\ c.chat_id = chat
                              /\ c.message_id = id)

(* C33: nothing is retried inside a run: whatever the answers, the call    *)
(* log of the run holds at most one send call (sendPhoto or                *)
(* sendMediaGroup) per chat and at most one edit call per chat and         *)
(* message id.                                                             *)
C33_NoRetryInsideRun ==
  \A i \in 1..Len(calls) :
    /\ calls[i].op \in {"sendPhoto", "sendMediaGroup"} =>
         Len(SendsTo(calls[i].chat_id)) = 1
    /\ calls[i].op = "editMessageMedia" =>
         Len(EditsOf(calls[i].chat_id, calls[i].message_id)) = 1

(* A run in which a send threw and an edit was refused, with a failed     *)
(* outcome, has reached its end without a second attempt.                  *)
C33_Witness ==
  /\ pc = "ack"
  /\ \E i \in 1..Len(calls) :
       calls[i].op \in {"sendPhoto", "sendMediaGroup"} /\ Threw(calls[i].ans)
  /\ \E i \in 1..Len(calls) :
       /\ calls[i].op = "editMessageMedia"
       /\ ~Threw(calls[i].ans) /\ ~calls[i].ans.ok
  /\ \E i \in 1..Len(results) : ~results[i].ok

(***************************************************************************)
(* What a step that attempted a send or an edit leaves in the record.      *)
(***************************************************************************)
StepAttempted ==
  /\ StepDone
  /\ OfOps(StepCalls, {"sendPhoto", "sendMediaGroup", "editMessageMedia"}) # <<>>

StepRemoved == Has(StepResult, "reason") /\ StepResult.reason = "unregistered"

(* C34: after a step that attempted a send or an edit and did not end in   *)
(* the removal of the chat, whatever the outcome of the attempt, the       *)
(* record of the chat exists and its image_url and caption are the         *)
(* effective values the step used; so a chat without a caption of its own  *)
(* has the default caption stored.                                         *)
C34_EffectiveValuesStored ==
  (StepAttempted /\ ~StepRemoved) =>
    /\ HasKey(messageMap, StepChat)
    /\ Has(Get(messageMap, StepChat), "image_url")
    /\ Get(messageMap, StepChat).image_url = StepEffective.image_url
    /\ Has(Get(messageMap, StepChat), "caption")
    /\ Get(messageMap, StepChat).caption = StepEffective.caption
    /\ ~Has(mapCfg, "caption") => Get(messageMap, StepChat).caption = DEFAULT_CAPTION

(* A chat without a caption of its own whose send failed has the default   *)
(* caption stored.                                                         *)
C34_Witness ==
  /\ StepAttempted /\ ~StepRemoved
  /\ ~Has(mapCfg, "caption")
  /\ ~StepResult.ok
  /\ StepSends # <<>>
  /\ Get(messageMap, StepChat).caption = DEFAULT_CAPTION
  /\ mapDirty

(***************************************************************************)
(* The map after the command step, against the commands of the batch.      *)
(***************************************************************************)
AfterCommands == pc = "welcome" /\ idx = 1 /\ updates # <<>>

(* The map as registerFromUpdates left it, before the first command.       *)
AfterRegistration ==
  registerFromUpdates([map |-> Loaded.map, dirty |-> Loaded.wasNormalized,
                       calls |-> <<>>, nextId |-> nextId], updates).w.map

Field(map, chat, f) ==
  IF HasKey(map, chat) /\ Has(Get(map, chat), f) THEN <<Get(map, chat)[f]>> ELSE <<>>

CaptionArgAt(i) == TextOf(Trim(CaptionMatch(TextOfMessage(MessageOf(updates[i]))).raw))

NonEmptyCaptionUpdates(chat) == {i \in CaptionUpdates(chat) : CaptionArgAt(i) # ""}

(* The caption of chat is what the last command of S asked for.            *)
CaptionFollows(chat, S) ==
  IF S = {} THEN Field(messageMap, chat, "caption") = Field(AfterRegistration, chat, "caption")
  ELSE IF IsDefaultArg(CaptionArgAt(LastOf(S))) THEN Field(messageMap, chat, "caption") = <<>>
  ELSE Field(messageMap, chat, "caption") = <<CaptionArgAt(LastOf(S))>>

ImageFollows(chat) ==
  IF ImageSavedReplies(chat) = {}
    THEN Field(messageMap, chat, "image_url") = Field(AfterRegistration, chat, "image_url")
    ELSE Field(messageMap, chat, "image_url") = <<Url(LastAcceptedUrl(chat))>>

ChatKeys == {String(ChatNumbers[i]) : i \in 1..Len(ChatNumbers)}

C35_OtherMessages ==
  /\ (CmdStep /\ IsCaptionCmd) =>
       /\ Field(messageMap', CmdChat, "image_url") = Field(messageMap, CmdChat, "image_url")
       /\ Field(messageMap', CmdChat, "welcome_message_id")
            = Field(messageMap, CmdChat, "welcome_message_id")
  /\ (CmdStep /\ ~IsCaptionCmd /\ ~IsImageCmd) =>
       /\ messageMap' = messageMap
       /\ mapDirty' = mapDirty
       /\ NewCalls = <<>>

LoopSilent ==
  \A i \in 1..Len(results) :
    Has(results[i], "reason") /\ results[i].reason \in {"no-image", "invalid-config"}

(* C36: when a run has acknowledged its batch, the map the batch produced  *)
(* (registrations, removals, command settings, welcome message ids) is     *)
(* what the file holds, or the batch changed nothing: a batch is not       *)
(* acknowledged while its effects exist only in memory.                    *)
C36_AckedMeansSaved ==
  (AfterAck /\ AckCalls # <<>> /\ LoopSilent) =>
    \/ file = saveMessageMapToFile(messageMap)
    \/ messageMap = Loaded.map

(***************************************************************************)
(* Deleted message ids in the call log of the run.                         *)
(***************************************************************************)
TouchesAfterDelete ==
  {<<i, j>> \in (1..Len(calls)) \X (1..Len(calls)) :
     /\ i < j
     /\ calls[i].op = "deleteMessage"
     /\ calls[j].op \in {"editMessageMedia", "pinChatMessage"}
     /\ calls[j].chat_id = calls[i].chat_id
     /\ calls[j].message_id = calls[i].message_id}

(* C37: once a delete call was issued for a message id of a chat, whatever *)
(* it answered, the run issues no edit call and no pin call for that id of *)
(* that chat afterwards.                                                   *)
C37_NoTouchAfterDelete == TouchesAfterDelete = {}

(* A run that deleted a stored message (switch of representation or        *)
(* replacement after a refused edit), sent anew and pinned the new         *)
(* message.                                                                *)
C37_Witness ==
  /\ StepDone
  /\ StepDeletes # <<>>
  /\ StepSends # <<>>
  /\ StepPins # <<>>
  /\ StepPins[1].message_id # StepDeletes[1].message_id

(* The same after an edit answered 400: the edited id is deleted, the new  *)
(* message is pinned.                                                      *)
C37_WitnessReplace ==
  /\ StepDone
  /\ StepEdits # <<>> /\ StepDeletes # <<>> /\ StepPins # <<>>
  /\ StepDeletes[1].message_id = StepEdits[1].message_id

(***************************************************************************)
(* The summary of a run: the filters of the entry point over results.      *)
(***************************************************************************)
Flag(r, f) == Has(r, f) /\ r[f] = TRUE

Reason(r, text) == Has(r, "reason") /\ r.reason = text

(* r.ok && r.message_id && !r.replaced                                     *)
IsSentNew(r) == r.ok /\ Has(r, "message_id") /\ r.message_id # 0 /\ ~Flag(r, "replaced")

(* r.ok && r.replaced && r.message_id                                      *)
IsReplacedNew(r) == r.ok /\ Flag(r, "replaced") /\ Has(r, "message_id") /\ r.message_id # 0

(* r.ok && r.result && !r.not_modified                                     *)
IsEdited(r) == r.ok /\ Has(r, "result") /\ ~Flag(r, "not_modified")

(* r.ok && r.not_modified                                                  *)
IsNotModifiedOutcome(r) == r.ok /\ Flag(r, "not_modified")

IsSkippedNoImage(r) == Reason(r, "no-image")

IsUnregistered(r) == r.ok /\ Reason(r, "unregistered")

IsInvalidConfig(r) == Reason(r, "invalid-config")

IsTopicClosedOutcome(r) == r.ok /\ Reason(r, "topic-closed")

Categories ==
  {"sent_new", "replaced", "edited", "not_modified", "skipped_no_image", "unregistered",
   "invalid_config", "topic_closed", "failure"}

InCategory(r, c) ==
  CASE c = "sent_new"         -> IsSentNew(r)
    [] c = "replaced"         -> IsReplacedNew(r)
    [] c = "edited"           -> IsEdited(r)
    [] c = "not_modified"     -> IsNotModifiedOutcome(r)
    [] c = "skipped_no_image" -> IsSkippedNoImage(r)
    [] c = "unregistered"     -> IsUnregistered(r)
    [] c = "invalid_config"   -> IsInvalidConfig(r)
    [] c = "topic_closed"     -> IsTopicClosedOutcome(r)
    [] c = "failure"          -> IsFailure(r)

CountOf(c) == Cardinality({i \in 1..Len(results) : InCategory(results[i], c)})

Summary == [c \in Categories \ {"failure"} |-> CountOf(c)] @@ ("total" :> Len(results))

RECURSIVE SumOver(_, _)
SumOver(f, S) ==
  IF S = {} THEN 0
  ELSE LET x == CHOOSE y \in S : TRUE IN f[x] + SumOver(f, S \ {x})

AtSummary == pc = "summary"

(* C38: in the summary every outcome of the run falls in exactly one of    *)
(* the categories sent_new, replaced, edited, not_modified,                *)
(* skipped_no_image, unregistered, invalid_config, topic_closed or         *)
(* failure; a newly sent single photo is counted as sent_new and not as    *)
(* edited, a newly sent album as sent_new; the counts of the categories    *)
(* and the failures add up to the total.                                   *)
C38_OneCategoryEach ==
  AtSummary =>
    /\ \A i \in 1..Len(results) :
         /\ Cardinality({c \in Categories : InCategory(results[i], c)}) = 1
         /\ (results[i].ok /\ Has(results[i], "message_id") /\ ~Flag(results[i], "replaced"))
              => (IsSentNew(results[i]) /\ ~IsEdited(results[i]))
         /\ (results[i].ok /\ Has(results[i], "message_ids")) => IsSentNew(results[i])
    /\ SumOver(Summary, Categories \ {"failure"}) + Cardinality(Failures) = Summary.total

(***************************************************************************)
(* The monitor worker (monitor-worker.mjs): a process of its own that      *)
(* loads the map file at every check and saves it after a change.          *)
(***************************************************************************)
MaxChecks == 3

(* The chat the worker watches, here the first chat of the model.          *)
TARGET_CHAT_ID == String(ChatA)

DEFAULT_INTERVAL_SEC == 30

(* getNextPlannedOutage(): the next planned window, or none.               *)
Outages == {<<>>, <<[start |-> "18:00", end |-> "22:00"]>>}

(* The notification: the new status, how long the old one lasted and the   *)
(* next planned window if there is one.                                    *)
StatusText(newStatus, duration, nextOutage) ==
  [status |-> newStatus, duration |-> duration, planned |-> nextOutage]

sendStatusNotification(w, chatId, newStatus, lastChangeTime, now, nextOutage, ans) ==
  sendTextMessage(w, chatId, StatusText(newStatus, now - lastChangeTime, nextOutage), ans).w

MonitorFiles ==
  {<<>>, <<Item(ChatB, [image_url |-> Url(U_ODESA), monitor_enabled |-> TRUE])>>}
  \cup {<<Item(ChatA, r)>> :
          r \in {[image_url |-> Url(U_KYIV), message_id |-> 10],
                 [image_url |-> Url(U_KYIV), monitor_enabled |-> FALSE,
                  monitor_last_status |-> "online", monitor_last_change |-> 1700000000],
                 [image_url |-> Url(U_KYIV), monitor_enabled |-> TRUE],
                 [image_url |-> Url(U_KYIV), message_id |-> 10, monitor_enabled |-> TRUE,
                  monitor_last_status |-> "online", monitor_last_change |-> 1700000000],
                 [monitor_enabled |-> TRUE, monitor_interval_sec |-> 60,
                  monitor_last_status |-> "offline", monitor_last_change |-> 1700000000]}}

InitMonitor == \E f \in MonitorFiles : StartFrom(f)

(* The top of the loop: the time is not up, the map is loaded, and the     *)
(* loop breaks when the chat is absent or monitoring is not enabled.       *)
MonitorLoad ==
  /\ mon.pc = "load"
  /\ LET map == loadMessageMapFromFile(file).map
         enabled == /\ HasKey(map, TARGET_CHAT_ID)
                    /\ Has(Get(map, TARGET_CHAT_ID), "monitor_enabled")
                    /\ Get(map, TARGET_CHAT_ID).monitor_enabled = TRUE
     IN mon' = IF mon.checks >= MaxChecks \/ ~enabled
                 THEN [mon EXCEPT !.pc = "finished"]
                 ELSE [mon EXCEPT !.pc = "check", !.map = map]
  /\ UNCHANGED <<file, messageMap, mapDirty, updates, lastUpdateId, newlyRegistered,
                 allIds, idx, pc, results, calls, nextId, writes, exitCode, run,
                 mapCfg, mark, prev>>

(* The rest of the iteration: the host is checked, a change is notified    *)
(* and saved, a first status is saved, and the worker sleeps.              *)
MonitorCheck ==
  /\ mon.pc = "check"
  /\ \E isOnline \in BOOLEAN :
       LET chatConfig == Get(mon.map, TARGET_CHAT_ID)
           newStatus == IF isOnline THEN "online" ELSE "offline"
           hasPrevious == /\ Has(chatConfig, "monitor_last_status")
                          /\ chatConfig.monitor_last_status # ""
           lastChange == IF Has(chatConfig, "monitor_last_change")
                              /\ chatConfig.monitor_last_change # 0
                           THEN chatConfig.monitor_last_change ELSE mon.now
           updated == Put(Put(chatConfig, "monitor_last_status", newStatus),
                          "monitor_last_change", mon.now)
           map == PutKey(mon.map, TARGET_CHAT_ID, updated)
           interval == IF Has(chatConfig, "monitor_interval_sec")
                            /\ chatConfig.monitor_interval_sec # 0
                         THEN chatConfig.monitor_interval_sec ELSE DEFAULT_INTERVAL_SEC
           slept == [mon EXCEPT !.pc = "load", !.status = newStatus,
                                !.now = @ + interval, !.checks = @ + 1]
       IN IF hasPrevious /\ chatConfig.monitor_last_status # newStatus
            THEN \E ans \in ReplyAnswers(nextId), nextOutage \in Outages, ok \in BOOLEAN :
                   LET w == sendStatusNotification(
                              [map |-> map, dirty |-> FALSE, calls |-> mon.sent,
                               nextId |-> nextId],
                              TARGET_CHAT_ID, newStatus, lastChange, mon.now, nextOutage, ans)
                   IN /\ mon' = [slept EXCEPT !.map = map, !.sent = w.calls]
                      /\ nextId' = w.nextId
                      /\ file' = IF ok THEN saveMessageMapToFile(map) ELSE file
          ELSE IF ~hasPrevious
            THEN \E ok \in BOOLEAN :
                   /\ mon' = [slept EXCEPT !.map = map]
                   /\ nextId' = nextId
                   /\ file' = IF ok THEN saveMessageMapToFile(map) ELSE file
          ELSE /\ mon' = slept
               /\ UNCHANGED <<file, nextId>>
  /\ UNCHANGED <<messageMap, mapDirty, updates, lastUpdateId, newlyRegistered,
                 allIds, idx, pc, results, calls, writes, exitCode, run,
                 mapCfg, mark, prev>>

NextMonitor ==
  \/ MonitorLoad
  \/ MonitorCheck

SpecMonitor == InitMonitor /\ [][NextMonitor]_vars

(***************************************************************************)
(* The worker's steps, and what the file holds about the watched chat.     *)
(***************************************************************************)
Stored(f, field) == Field(loadMessageMapFromFile(f).map, TARGET_CHAT_ID, field)

Notified == Len(mon'.sent) = Len(mon.sent) + 1

C39_CheckStep ==
  mon.pc = "check" =>
    LET previous == Field(mon.map, TARGET_CHAT_ID, "monitor_last_status")
    IN /\ Notified <=> (previous # <<>> /\ previous # <<mon'.status>>)
       /\ ~Notified => mon'.sent = mon.sent
       /\ Notified =>
            /\ mon'.sent[Len(mon'.sent)].chat_id = TARGET_CHAT_ID
            /\ mon'.sent[Len(mon'.sent)].text.status = mon'.status
       /\ (Notified \/ previous = <<>>) =>
            /\ Stored(file', "monitor_last_status") = <<mon'.status>>
            /\ Stored(file', "monitor_last_change") = <<mon.now>>

C39_LoadStep ==
  mon.pc = "load" =>
    /\ mon'.sent = mon.sent /\ file' = file
    /\ (\/ Stored(file, "monitor_enabled") # <<TRUE>>
        \/ mon.checks >= MaxChecks) <=> mon'.pc = "finished"
    /\ mon'.pc # "finished" => mon'.pc = "check"

BothFiles ==
  {<<Item(ChatA, r)>> :
     r \in {[image_url |-> Url(U_KYIV), monitor_enabled |-> TRUE],
            [image_url |-> Url(U_KYIV), message_id |-> 10, monitor_enabled |-> TRUE,
             monitor_last_status |-> "online", monitor_last_change |-> 1700000000]}}

InitBoth == \E f \in BothFiles : StartFrom(f)

NextBoth ==
  \/ FetchNothing
  \/ StartLoop
  \/ ReconcileChat
  \/ SaveMap
  \/ AckUpdates
  \/ Exit
  \/ MonitorLoad
  \/ MonitorCheck

SpecBoth == InitBoth /\ [][NextBoth]_vars

WorkerFields == {"monitor_last_status", "monitor_last_change"}

BotFields == {"message_id", "message_ids", "image_url", "caption"}

(* The bot wrote the file while it held what the worker had saved.         *)
BotSavedOverWorker ==
  /\ mon' = mon /\ file' # file
  /\ mon.checks > 0
  /\ \A f \in WorkerFields : Stored(file, f) = Field(mon.map, TARGET_CHAT_ID, f)
  /\ HasKey(loadMessageMapFromFile(file').map, TARGET_CHAT_ID)

(* The worker wrote the file while it held what the run had saved.         *)
WorkerSavedOverBot ==
  /\ mon' # mon /\ file' # file
  /\ pc \in {"ack", "summary", "done"} /\ writes = 1
  /\ \A f \in BotFields : Stored(file, f) = Field(messageMap, TARGET_CHAT_ID, f)

====
